---- MODULE Spec2Model ----
(***************************************************************************)
(* A model of nine_tiles_panic: tiles, faces and roads (tile.py), the     *)
(* occupants of a path (onroad.py), the Town builder, its road graph, the  *)
(* food chain and the 26 themes (town.py), and the synonym search          *)
(* (utils.py, class Search).                                               *)
(*                                                                         *)
(* Python's None is the integer None (-1) for an edge or an index, and     *)
(* the record NoFace for a missing TileFace.  A pattern string is a        *)
(* sequence of digits; the code's 0-based s[n] is At(s, n).                *)
(***************************************************************************)
EXTENDS Integers, Sequences, FiniteSets, TLC

VARIABLES
    tiles,          \* Town.make: name of the tile list handed to the Town
    tile_list,      \* the Tile objects of that list, as the program holds them
    pattern,        \* Town.make: the pattern string, a sequence of digits
    face,           \* Town.face: position 0..8 -> TileFace or NoFace
    making_failed,  \* Town.making_failed
    paths,          \* Town.paths
    pc,             \* where the Town's construction stands
    idx,            \* Town.make: the loop index i; add_tile: its position;
                    \* calls on a shared tile list: how many were made
    objects,        \* Path.objects of the path under check_food_chain
    runs,           \* how often check_food_chain has run on objects
    rorig,          \* the catalog face a rotation sequence started from
    rface,          \* the face after the rotations so far
    rturns,         \* quarter turns applied so far
    psyn,           \* a synonym pattern handed to Search
    pout,           \* what Search yielded for it
    arg,            \* the arguments of a call of a class method
    ret,            \* what the call returned, <<>> before it returns
    points,         \* search_point_from_synonym: the list points
    previous_position  \* search_point_from_synonym: previous_position

vars == <<tiles, tile_list, pattern, face, making_failed, paths, pc, idx, objects, runs,
          rorig, rface, rturns, psyn, pout, arg, ret, points,
          previous_position>>
townVars == <<tiles, tile_list, pattern, face, making_failed, paths, pc, idx>>
pathVars == <<objects, runs>>
rotVars == <<rorig, rface, rturns>>
searchVars == <<psyn, pout>>
callVars == <<arg, ret>>
stagedVars == <<points, previous_position>>

(***************************************************************************)
(* Program constants (nine_tiles_panic.config, read in town.py:16-18).     *)
(***************************************************************************)
LEN_SIDE == 3
NUM_TILE == 9
NUM_THEME == 26

None == -1
NoFace == [absent |-> TRUE]

At(s, n) == s[n + 1]

Positions == 0 .. (NUM_TILE - 1)

RECURSIVE SumSeq(_)
SumSeq(s) == IF s = <<>> THEN 0 ELSE Head(s) + SumSeq(Tail(s))

RECURSIVE MaxSeq(_)
\* Python's max(list) of a non-empty list
MaxSeq(s) == IF Len(s) = 1 THEN s[1]
             ELSE LET m == MaxSeq(Tail(s)) IN IF s[1] >= m THEN s[1] ELSE m

SetMin(S) == CHOOSE m \in S : \A y \in S : m <= y
SetMax(S) == CHOOSE m \in S : \A y \in S : m >= y

\* the variables of the parts of the program a specification leaves alone
IdleTown ==
    /\ tiles = "original"
    /\ tile_list = <<>>
    /\ pattern = <<>>
    /\ face = [p \in Positions |-> NoFace]
    /\ making_failed = FALSE
    /\ paths = <<>>
    /\ pc = "idle"
    /\ idx = 0

IdlePath == objects = <<>> /\ runs = 0

IdleRot == rorig = NoFace /\ rface = NoFace /\ rturns = 0

IdleSearch == psyn = <<>> /\ pout = <<>>

IdleCall == arg = <<>> /\ ret = <<>>

IdleStaged == points = <<>> /\ previous_position = <<>>

(***************************************************************************)
(* tile.py: Road, TileFace, Tile                                           *)
(***************************************************************************)
Road(i, t, ag, al, hb) ==
    [initial_edge |-> i, terminal_edge |-> t, agent_face |-> ag,
     alien_face |-> al, num_hamburger |-> hb]

TileFace(rs, dog, girl, boy, house, ufo, ao, ac) ==
    [roads |-> rs, num_dog |-> dog, num_girl |-> girl, num_boy |-> boy,
     num_house |-> house, num_ufo |-> ufo, num_agent_offroad |-> ao,
     num_alien_offroad_captured |-> ac]

Tile(front, back) == [front_face |-> front, back_face |-> back]

\* Road.rotate with the modulo forgotten
RoadRotateNoWrap(r, angle) ==
    IF angle # 0
    THEN [r EXCEPT !.initial_edge = @ + angle,
                   !.terminal_edge = @ + angle,
                   !.agent_face = IF @ # None THEN @ + angle ELSE @,
                   !.alien_face = IF @ # None THEN @ + angle ELSE @]
    ELSE r

\* Road.rotate
RoadRotate(r, angle) ==
    IF angle # 0
    THEN [r EXCEPT !.initial_edge = (@ + angle) % 4,
                   !.terminal_edge = (@ + angle) % 4,
                   !.agent_face = IF @ # None THEN (@ + angle) % 4 ELSE @,
                   !.alien_face = IF @ # None THEN (@ + angle) % 4 ELSE @]
    ELSE r

\* Road.is_curve
is_curve(r) == ((r.initial_edge - r.terminal_edge) % 2) # 0

\* Road.get_num_agent, Road.get_num_alien
RoadNumAgent(r) == IF r.agent_face # None THEN 1 ELSE 0
RoadNumAlien(r) == IF r.alien_face # None THEN 1 ELSE 0

\* TileFace.rotate: a deep copy with every road rotated
TileFaceRotate(f, angle) ==
    [f EXCEPT !.roads = [k \in 1 .. Len(f.roads) |-> RoadRotate(f.roads[k], angle)]]

\* TileFace.get_edges: the roads' edge pairs, flattened by does_have_road_edge
does_have_road_edge(f, finding_edge) ==
    \E k \in 1 .. Len(f.roads) :
        finding_edge \in {f.roads[k].initial_edge, f.roads[k].terminal_edge}

\* TileFace.get_num_agent
FaceNumAgent(f) ==
    f.num_agent_offroad
    + SumSeq([k \in 1 .. Len(f.roads) |-> RoadNumAgent(f.roads[k])])

\* TileFace.alien_exist
alien_exist(f) ==
    IF f.num_alien_offroad_captured > 0 THEN TRUE
    ELSE \E k \in 1 .. Len(f.roads) : RoadNumAlien(f.roads[k]) > 0

\* TileFace.get_num_citizen
FaceNumCitizen(f) == f.num_girl + f.num_boy

\* Tile.get_original
OriginalTiles == <<
    Tile(TileFace(<<>>, 2, 0, 0, 0, 0, 1, 1),
         TileFace(<<Road(0, 1, None, None, 1), Road(2, 3, None, None, 0)>>,
                  1, 0, 0, 0, 0, 0, 0)),
    Tile(TileFace(<<Road(0, 1, None, 1, 0)>>, 0, 0, 0, 1, 0, 0, 0),
         TileFace(<<Road(0, 2, 2, None, 0), Road(1, 3, None, None, 0)>>,
                  1, 0, 0, 0, 0, 0, 0)),
    Tile(TileFace(<<Road(0, 3, 0, None, 0), Road(1, 2, None, None, 0)>>,
                  0, 0, 1, 0, 0, 0, 0),
         TileFace(<<Road(2, 3, None, None, 1)>>, 1, 0, 0, 0, 0, 0, 0)),
    Tile(TileFace(<<>>, 0, 0, 0, 2, 1, 0, 0),
         TileFace(<<Road(0, 2, None, None, 1)>>, 0, 0, 0, 1, 0, 0, 0)),
    Tile(TileFace(<<Road(0, 3, None, 0, 0), Road(1, 2, None, None, 0)>>,
                  0, 0, 0, 1, 0, 0, 0),
         TileFace(<<Road(0, 2, None, None, 0), Road(1, 3, None, None, 1)>>,
                  0, 0, 1, 0, 0, 0, 0)),
    Tile(TileFace(<<Road(0, 1, None, None, 1)>>, 0, 0, 0, 1, 0, 0, 0),
         TileFace(<<>>, 0, 1, 1, 0, 1, 0, 0)),
    Tile(TileFace(<<Road(0, 2, None, 0, 0), Road(1, 3, None, None, 0)>>,
                  0, 0, 0, 1, 0, 0, 0),
         TileFace(<<Road(0, 2, 2, None, 0)>>, 0, 1, 0, 0, 0, 0, 0)),
    Tile(TileFace(<<Road(0, 3, None, None, 1), Road(1, 2, None, None, 0)>>,
                  1, 0, 0, 0, 0, 0, 0),
         TileFace(<<Road(0, 2, None, 2, 0)>>, 0, 0, 1, 0, 0, 0, 0)),
    Tile(TileFace(<<Road(0, 1, 1, None, 0)>>, 0, 1, 0, 0, 0, 0, 0),
         TileFace(<<Road(0, 2, None, None, 1)>>, 1, 0, 0, 0, 0, 0, 0)) >>

\* Tile.get_synonym: front faces only, the back face is None
SynonymTiles == <<
    Tile(TileFace(<<>>, 0, 0, 0, 0, 0, 0, 0), NoFace),
    Tile(TileFace(<<Road(0, 1, None, None, 0)>>, 0, 0, 0, 0, 0, 0, 0), NoFace),
    Tile(TileFace(<<Road(0, 1, None, None, 0), Road(2, 3, None, None, 0)>>,
                  0, 0, 0, 0, 0, 0, 0), NoFace),
    Tile(TileFace(<<Road(0, 2, None, None, 0)>>, 0, 0, 0, 0, 0, 0, 0), NoFace),
    Tile(TileFace(<<Road(0, 2, None, None, 0), Road(1, 3, None, None, 0)>>,
                  0, 0, 0, 0, 0, 0, 0), NoFace) >>

\* A hand-built tile list, as Town(pattern, tiles) accepts one: no road, and
\* a straight left-right road that is empty or carries an agent, an alien
\* or a hamburger
HandTiles == <<
    Tile(TileFace(<<>>, 0, 0, 0, 0, 0, 0, 0), NoFace),
    Tile(TileFace(<<Road(1, 3, 3, None, 0)>>, 0, 0, 0, 0, 0, 0, 0), NoFace),
    Tile(TileFace(<<Road(1, 3, None, 3, 0)>>, 0, 0, 0, 0, 0, 0, 0), NoFace),
    Tile(TileFace(<<Road(1, 3, None, None, 1)>>, 0, 0, 0, 0, 0, 0, 0), NoFace),
    Tile(TileFace(<<Road(1, 3, None, None, 0)>>, 0, 0, 0, 0, 0, 0, 0), NoFace) >>

TileList(name) ==
    CASE name = "original" -> OriginalTiles
      [] name = "synonym" -> SynonymTiles
      [] name = "hand" -> HandTiles

\* Tile.get_face: the chosen side, rotated; NoFace when that side is None
\* (None.rotate raises AttributeError)
TileGetFace(tile, is_front, angle) ==
    LET side == IF is_front THEN tile.front_face ELSE tile.back_face
    IN  IF side = NoFace THEN NoFace ELSE TileFaceRotate(side, angle)

\* a rotate that turns the roads of the face it is called on
TileFaceRotateInPlace(f, angle) == TileFaceRotate(f, angle)

\* TileFace.rotate: the face it was called on, after the call (the roads
\* that are turned are those of a deep copy)
TileFaceRotateSelf(f, angle) == f

\* Tile.get_face: the tile it was called on, after the call
TileAfterGetFace(tile, is_front, angle) ==
    LET side == IF is_front THEN tile.front_face ELSE tile.back_face
    IN  IF side = NoFace THEN tile
        ELSE IF is_front
             THEN [tile EXCEPT !.front_face = TileFaceRotateSelf(side, angle)]
             ELSE [tile EXCEPT !.back_face = TileFaceRotateSelf(side, angle)]

(***************************************************************************)
(* town.py: Town, placing faces                                            *)
(***************************************************************************)
\* Town.OUTER_EDGES, Town.INNER_EDGES
OUTER_EDGES == <<0, 4, 8, 1, 11, 13, 23, 25, 35, 26, 30, 34>>
INNER_EDGES == <<3, 7, 2, 6, 10, 15, 19, 14, 18, 22, 27, 31>>

SeqSet(s) == {s[k] : k \in 1 .. Len(s)}

\* Town.get_neighbour_position
get_neighbour_position(position) ==
    CASE position = 0 -> <<1, 3>>
      [] position = 1 -> <<0, 2, 4>>
      [] position = 2 -> <<1, 5>>
      [] position = 3 -> <<0, 4, 6>>
      [] position = 4 -> <<1, 3, 5, 7>>
      [] position = 5 -> <<2, 4, 8>>
      [] position = 6 -> <<3, 7>>
      [] position = 7 -> <<4, 6, 8>>
      [] position = 8 -> <<5, 7>>

\* Town.get_connecting_edge with its two positions taken the wrong way round
get_connecting_edge_swapped(pos1, pos2) ==
    IF pos2 \in SeqSet(get_neighbour_position(pos1))
    THEN LET pos_diff == pos2 - pos1
         IN  CASE pos_diff = -LEN_SIDE -> 0
               [] pos_diff = -1 -> 1
               [] pos_diff = LEN_SIDE -> 2
               [] pos_diff = 1 -> 3
    ELSE None

\* Town.get_connecting_edge: the edge of the tile at pos2 that touches pos1
get_connecting_edge(pos1, pos2) ==
    IF pos2 \in SeqSet(get_neighbour_position(pos1))
    THEN LET pos_diff == pos1 - pos2
         IN  CASE pos_diff = -LEN_SIDE -> 0
               [] pos_diff = -1 -> 1
               [] pos_diff = LEN_SIDE -> 2
               [] pos_diff = 1 -> 3
    ELSE None

\* Town.get_neighbour: the placed neighbours of a position
get_neighbour(fc, position) ==
    {p \in SeqSet(get_neighbour_position(position)) : fc[p] # NoFace}

\* Town.can_add_tile: is_good_connection starts True and is flipped once for
\* a stub on the neighbour's side and once for a stub on the new face's side
can_add_tile(fc, position, adding_face) ==
    \A p \in get_neighbour(fc, position) :
        LET g0 == TRUE
            g1 == IF does_have_road_edge(fc[p], get_connecting_edge(position, p))
                  THEN ~g0 ELSE g0
            g2 == IF does_have_road_edge(adding_face, get_connecting_edge(p, position))
                  THEN ~g1 ELSE g1
        IN  g2

\* a Town.add_tile that does not look whether the cell is empty
add_tile_overwriting(fc, failed, position, adding_face) ==
    LET has_added == can_add_tile(fc, position, adding_face)
    IN  [face |-> IF has_added THEN [fc EXCEPT ![position] = adding_face] ELSE fc,
         making_failed |-> IF has_added THEN failed ELSE TRUE]

\* Town.add_tile on the grid: the grid and the failure flag after the call
add_tile(fc, failed, position, adding_face) ==
    LET has_added == fc[position] = NoFace /\ can_add_tile(fc, position, adding_face)
    IN  [face |-> IF has_added THEN [fc EXCEPT ![position] = adding_face] ELSE fc,
         making_failed |-> IF has_added THEN failed ELSE TRUE]

NumPlaced(fc) == Cardinality({p \in Positions : fc[p] # NoFace})

(***************************************************************************)
(* Town.add_tile called on a fresh Town in any order of positions, with    *)
(* the road-shape tiles                                                    *)
(***************************************************************************)
MaxPlaced == 2
MaxPosition == 3

\* Search.search_synonym's defaults: how many tiles of each road shape the
\* real tile set has, and how many distinct orientations each shape has
num_tiles == <<3, 4, 4, 4, 3>>
num_angle == <<1, 4, 2, 2, 1>>

InitAdd ==
    /\ tiles = "synonym"
    /\ tile_list = TileList(tiles)
    /\ pattern = <<>>
    /\ face = [p \in Positions |-> NoFace]
    /\ making_failed = FALSE
    /\ paths = <<>>
    /\ pc = "adding"
    /\ idx = 0
    /\ IdlePath /\ IdleRot /\ IdleSearch /\ IdleCall /\ IdleStaged

\* town.add_tile(position, tile, True, angle); idx keeps the position of
\* the call
AddTile(position, t, angle) ==
    /\ pc = "adding"
    /\ NumPlaced(face) < MaxPlaced
    /\ LET r == add_tile(face, making_failed, position,
                         TileGetFace(At(TileList(tiles), t), TRUE, angle))
       IN  /\ face' = r.face
           /\ making_failed' = r.making_failed
    /\ idx' = position
    /\ UNCHANGED <<tiles, tile_list, pattern, paths, pc, pathVars, rotVars, searchVars, callVars, stagedVars>>

NextAdd ==
    \E position \in 0 .. MaxPosition, t \in 0 .. 4 :
        \E angle \in 0 .. (At(num_angle, t) - 1) :
            AddTile(position, t, angle)

SpecAdd == InitAdd /\ [][NextAdd]_vars

\* the cell next to position across its edge e (0 top, 1 left, 2 bottom,
\* 3 right), or None at the rim of the grid
CellAcross(position, e) ==
    LET row == position \div 3
        col == position % 3
    IN  CASE e = 0 -> IF row > 0 THEN position - 3 ELSE None
          [] e = 1 -> IF col > 0 THEN position - 1 ELSE None
          [] e = 2 -> IF row < 2 THEN position + 3 ELSE None
          [] e = 3 -> IF col < 2 THEN position + 1 ELSE None

HasStub(f, e) ==
    \E k \in 1 .. Len(f.roads) :
        f.roads[k].initial_edge = e \/ f.roads[k].terminal_edge = e

SynonymFaces ==
    {TileGetFace(SynonymTiles[t], TRUE, angle) : t \in 1 .. 5, angle \in 0 .. 3}

\* C1: can_add_tile accepts a face at a position exactly when, across each
\* of its four edges that has a placed neighbour, the face has a road stub
\* if and only if the neighbour has one on the facing edge; empty cells and
\* the rim of the grid constrain nothing
C1_CanAddIffStubsAgree ==
    pc = "adding" =>
        \A position \in Positions, f \in SynonymFaces :
            can_add_tile(face, position, f)
            <=> \A e \in 0 .. 3 :
                    LET q == CellAcross(position, e)
                    IN  (q # None /\ face[q] # NoFace)
                        => (HasStub(f, e) <=> HasStub(face[q], (e + 2) % 4))

\* a face placed beside two placed neighbours, one consulted on its stub
C1_Witness ==
    /\ pc = "adding"
    /\ NumPlaced(face) = 2
    /\ ~making_failed
    /\ \E position \in Positions, f \in SynonymFaces :
          /\ Cardinality(get_neighbour(face, position)) = 2
          /\ can_add_tile(face, position, f)
          /\ \E p \in get_neighbour(face, position) :
                does_have_road_edge(f, get_connecting_edge(p, position))
          /\ \E g \in SynonymFaces : ~can_add_tile(face, position, g)

\* C11: an add_tile call never changes a cell that holds a face, and a call
\* aimed at a cell that holds a face leaves the grid as it was and sets the
\* failure flag
C11_CellAssignedOnce ==
    [][/\ \A p \in Positions : face[p] # NoFace => face'[p] = face[p]
       /\ face[idx'] # NoFace => (face' = face /\ making_failed')]_vars

\* one face placed, then a call aimed at its cell
C11_Witness ==
    /\ pc = "adding"
    /\ NumPlaced(face) = 1
    /\ face[idx] # NoFace
    /\ making_failed

(***************************************************************************)
(* onroad.py: Agent, Alien, Hamburger                                      *)
(***************************************************************************)
\* Agent.__init__
Agent(f) ==
    [kind |-> "Agent", face |-> f, dir |-> "", is_capturing |-> FALSE,
     capturing_alien |-> None]

\* Alien.__init__
Alien(f) ==
    [kind |-> "Alien", face |-> f, dir |-> "", is_captured |-> FALSE,
     captured_agent |-> None, eating |-> FALSE, eating_hamburger |-> None]

\* Hamburger.__init__
Hamburger == [kind |-> "Hamburger", is_eaten |-> FALSE, ate_alien |-> <<>>]

\* the "object" attribute of a road without an occupant
NoObject == [kind |-> "None"]

\* Agent.set_dir, Alien.set_dir
set_dir(obj, direction) == [obj EXCEPT !.dir = direction]

\* Agent.capture
capture(obj, capturing_alien) ==
    [obj EXCEPT !.is_capturing = TRUE, !.capturing_alien = capturing_alien]

\* an Alien.captured that records the agent and leaves the flag unset
captured_without_flag(obj, captured_agent) ==
    [obj EXCEPT !.captured_agent = captured_agent]

\* Alien.captured
captured(obj, captured_agent) ==
    [obj EXCEPT !.is_captured = TRUE, !.captured_agent = captured_agent]

\* Alien.eat
eat(obj, eating_hamburger) ==
    [obj EXCEPT !.eating = TRUE, !.eating_hamburger = eating_hamburger]

\* Hamburger.eaten that replaces the list instead of appending to it
eaten_replacing(obj, ate_alien) ==
    [obj EXCEPT !.is_eaten = TRUE, !.ate_alien = <<ate_alien>>]

\* Hamburger.eaten
eaten(obj, ate_alien) ==
    [obj EXCEPT !.is_eaten = TRUE, !.ate_alien = Append(@, ate_alien)]

\* Agent.is_free, Alien.is_free
AgentIsFree(obj) == ~obj.is_capturing
AlienIsFree(obj) == ~obj.is_captured

(***************************************************************************)
(* town.py: Path.check_food_chain                                          *)
(***************************************************************************)
\* the local variables of check_food_chain before its loop
FoodChainStart(objs) ==
    [objects |-> objs,
     free_agent_left |-> None, free_agent_right |-> None,
     free_alien_left |-> None, free_alien_right |-> None,
     hangry_alien_left |-> None, hangry_alien_right |-> None,
     free_hamburger |-> None]

\* an Agent loop body that takes the farther of two pending aliens
FoodChainAgentFarthest(s, i) ==
    LET obj == At(s.objects, i)
    IN  IF obj.dir = "left"
        THEN LET free_alien ==
                     IF s.free_alien_left # None /\ s.free_alien_right # None
                     THEN (IF s.free_alien_left <= s.free_alien_right
                           THEN s.free_alien_left ELSE s.free_alien_right)
                     ELSE IF s.free_alien_left # None THEN s.free_alien_left
                     ELSE IF s.free_alien_right # None THEN s.free_alien_right
                     ELSE None
             IN  IF free_alien # None
                 THEN [s EXCEPT
                          !.objects = [@ EXCEPT
                              ![i + 1] = capture(obj, free_alien),
                              ![free_alien + 1] = captured(@, i)],
                          !.free_alien_left =
                              IF s.free_alien_left = free_alien THEN None ELSE @,
                          !.free_alien_right =
                              IF s.free_alien_left = free_alien THEN @
                              ELSE IF s.free_alien_right = free_alien THEN None
                              ELSE @]
                 ELSE [s EXCEPT !.free_agent_left = i]
        ELSE IF obj.dir = "right"
        THEN [s EXCEPT !.free_agent_right = i]
        ELSE s

\* the loop body for an Agent at index i
FoodChainAgent(s, i) ==
    LET obj == At(s.objects, i)
    IN  IF obj.dir = "left"
        THEN LET free_alien ==
                     IF s.free_alien_left # None /\ s.free_alien_right # None
                     THEN (IF s.free_alien_left >= s.free_alien_right
                           THEN s.free_alien_left ELSE s.free_alien_right)
                     ELSE IF s.free_alien_left # None THEN s.free_alien_left
                     ELSE IF s.free_alien_right # None THEN s.free_alien_right
                     ELSE None
             IN  IF free_alien # None
                 THEN [s EXCEPT
                          !.objects = [@ EXCEPT
                              ![i + 1] = capture(obj, free_alien),
                              ![free_alien + 1] = captured(@, i)],
                          !.free_alien_left =
                              IF s.free_alien_left = free_alien THEN None ELSE @,
                          !.free_alien_right =
                              IF s.free_alien_left = free_alien THEN @
                              ELSE IF s.free_alien_right = free_alien THEN None
                              ELSE @]
                 ELSE [s EXCEPT !.free_agent_left = i]
        ELSE IF obj.dir = "right"
        THEN [s EXCEPT !.free_agent_right = i]
        ELSE s

\* an Alien loop body that leaves the eaten hamburger registered as free
FoodChainAlienKeepingHamburger(s, i) ==
    LET obj == At(s.objects, i)
        s1 == IF s.free_agent_right # None
              THEN [s EXCEPT
                       !.objects = [@ EXCEPT
                           ![s.free_agent_right + 1] = capture(@, i),
                           ![i + 1] = captured(@, s.free_agent_right)],
                       !.free_agent_right = None]
              ELSE IF obj.dir = "left" THEN [s EXCEPT !.free_alien_left = i]
              ELSE IF obj.dir = "right" THEN [s EXCEPT !.free_alien_right = i]
              ELSE s
    IN  IF obj.dir = "left"
        THEN IF s1.free_hamburger # None
             THEN [s1 EXCEPT
                      !.objects = [@ EXCEPT
                          ![i + 1] = eat(@, s1.free_hamburger),
                          ![s1.free_hamburger + 1] = eaten(@, i)]]
             ELSE [s1 EXCEPT !.hangry_alien_left = i]
        ELSE IF obj.dir = "right"
        THEN [s1 EXCEPT !.hangry_alien_right = i]
        ELSE s1

\* an Alien loop body that leaves the capturing agent registered as free
FoodChainAlienKeepingAgent(s, i) ==
    LET obj == At(s.objects, i)
        s1 == IF s.free_agent_right # None
              THEN [s EXCEPT
                       !.objects = [@ EXCEPT
                           ![s.free_agent_right + 1] = capture(@, i),
                           ![i + 1] = captured(@, s.free_agent_right)]]
              ELSE IF obj.dir = "left" THEN [s EXCEPT !.free_alien_left = i]
              ELSE IF obj.dir = "right" THEN [s EXCEPT !.free_alien_right = i]
              ELSE s
    IN  IF obj.dir = "left"
        THEN IF s1.free_hamburger # None
             THEN [s1 EXCEPT
                      !.objects = [@ EXCEPT
                          ![i + 1] = eat(@, s1.free_hamburger),
                          ![s1.free_hamburger + 1] = eaten(@, i)],
                      !.free_hamburger = None]
             ELSE [s1 EXCEPT !.hangry_alien_left = i]
        ELSE IF obj.dir = "right"
        THEN [s1 EXCEPT !.hangry_alien_right = i]
        ELSE s1

\* the loop body for an Alien at index i: capture first, then feeding
FoodChainAlien(s, i) ==
    LET obj == At(s.objects, i)
        s1 == IF s.free_agent_right # None
              THEN [s EXCEPT
                       !.objects = [@ EXCEPT
                           ![s.free_agent_right + 1] = capture(@, i),
                           ![i + 1] = captured(@, s.free_agent_right)],
                       !.free_agent_right = None]
              ELSE IF obj.dir = "left" THEN [s EXCEPT !.free_alien_left = i]
              ELSE IF obj.dir = "right" THEN [s EXCEPT !.free_alien_right = i]
              ELSE s
    IN  IF obj.dir = "left"
        THEN IF s1.free_hamburger # None
             THEN [s1 EXCEPT
                      !.objects = [@ EXCEPT
                          ![i + 1] = eat(@, s1.free_hamburger),
                          ![s1.free_hamburger + 1] = eaten(@, i)],
                      !.free_hamburger = None]
             ELSE [s1 EXCEPT !.hangry_alien_left = i]
        ELSE IF obj.dir = "right"
        THEN [s1 EXCEPT !.hangry_alien_right = i]
        ELSE s1

\* a Hamburger loop body that clears the hangry slot after feeding
FoodChainHamburgerClearing(s, i) ==
    LET s1 == IF s.hangry_alien_right # None
              THEN [s EXCEPT
                       !.objects = [@ EXCEPT
                           ![s.hangry_alien_right + 1] = eat(@, i),
                           ![i + 1] = eaten(@, s.hangry_alien_right)],
                       !.hangry_alien_right = None]
              ELSE s
    IN  [s1 EXCEPT !.free_hamburger = i]

\* the loop body for a Hamburger at index i
FoodChainHamburger(s, i) ==
    LET s1 == IF s.hangry_alien_right # None
              THEN [s EXCEPT
                       !.objects = [@ EXCEPT
                           ![s.hangry_alien_right + 1] = eat(@, i),
                           ![i + 1] = eaten(@, s.hangry_alien_right)]]
              ELSE s
    IN  [s1 EXCEPT !.free_hamburger = i]

RECURSIVE FoodChainLoop(_, _)
\* for i, obj in enumerate(self.objects), from index i on
FoodChainLoop(s, i) ==
    IF i >= Len(s.objects) THEN s
    ELSE LET kind == At(s.objects, i).kind
             t == CASE kind = "Agent" -> FoodChainAgent(s, i)
                    [] kind = "Alien" -> FoodChainAlien(s, i)
                    [] kind = "Hamburger" -> FoodChainHamburger(s, i)
         IN  FoodChainLoop(t, i + 1)

\* Path.check_food_chain on the list of occupants: the list afterwards
check_food_chain(objs) == FoodChainLoop(FoodChainStart(objs), 0).objects

(***************************************************************************)
(* town.py: the road graph, Town.__make_paths and Path.__init__            *)
(***************************************************************************)
\* a convert_edge that moves every other stub by the same offset
convert_edge_one_offset(e) ==
    IF e \in SeqSet(OUTER_EDGES) \/ e \in SeqSet(INNER_EDGES) THEN e
    ELSE e - 2

\* Town.convert_edge
convert_edge(e) ==
    IF e \in SeqSet(OUTER_EDGES) \/ e \in SeqSet(INNER_EDGES) THEN e
    ELSE IF e % 4 = 0 THEN e - LEN_SIDE * 4 + 2
    ELSE e - 2

\* one town_roads.add_edge call: the road r of the face at position i
RoadEdge(i, r) ==
    [u |-> convert_edge(i * 4 + r.initial_edge),
     v |-> convert_edge(i * 4 + r.terminal_edge),
     object |-> IF r.agent_face # None
                THEN Agent(convert_edge(i * 4 + r.agent_face))
                ELSE IF r.alien_face # None
                THEN Alien(convert_edge(i * 4 + r.alien_face))
                ELSE IF r.num_hamburger > 0 THEN Hamburger
                ELSE NoObject]

RECURSIVE TownRoadsFrom(_, _)
TownRoadsFrom(fc, i) ==
    IF i = NUM_TILE THEN <<>>
    ELSE [k \in 1 .. Len(fc[i].roads) |-> RoadEdge(i, fc[i].roads[k])]
         \o TownRoadsFrom(fc, i + 1)

\* the add_edge calls of __make_paths, in order
town_roads(fc) == TownRoadsFrom(fc, 0)

RECURSIVE NodeOrderFrom(_, _)
NodeOrderFrom(recs, seen) ==
    IF recs = <<>> THEN <<>>
    ELSE LET u == Head(recs).u
             v == Head(recs).v
             nu == IF u \in seen THEN <<>> ELSE <<u>>
             nv == IF v \in seen \/ v = u THEN <<>> ELSE <<v>>
         IN  nu \o nv \o NodeOrderFrom(Tail(recs), seen \cup {u, v})

\* the graph's nodes in the order add_edge created them
GraphNodes(recs) == NodeOrderFrom(recs, {})

\* the graph's edges; a second add_edge on the same pair adds none
GraphEdges(recs) == {{recs[k].u, recs[k].v} : k \in 1 .. Len(recs)}

\* path_graph[i][j]["object"]: the attribute the last add_edge on {i, j} set
EdgeObject(recs, i, j) ==
    recs[SetMax({k \in 1 .. Len(recs) : {recs[k].u, recs[k].v} = {i, j}})].object

RECURSIVE Reach(_, _)
\* the nodes connected to the set S by the edges E
Reach(E, S) ==
    LET T == S \cup UNION {e \in E : e \cap S # {}}
    IN  IF T = S THEN S ELSE Reach(E, T)

RECURSIVE ComponentsFrom(_, _, _)
ComponentsFrom(order, E, seen) ==
    IF order = <<>> THEN <<>>
    ELSE IF Head(order) \in seen THEN ComponentsFrom(Tail(order), E, seen)
    ELSE LET c == Reach(E, {Head(order)})
         IN  <<c>> \o ComponentsFrom(Tail(order), E, seen \cup c)

\* nx.connected_components: node sets, in the order of their first node
connected_components(recs) ==
    ComponentsFrom(GraphNodes(recs), GraphEdges(recs), {})

RECURSIVE PruneLeaves(_)
\* edges left once every edge with an end of degree 1 is removed, repeatedly
PruneLeaves(E) ==
    LET keep == {e \in E : \A n \in e : Cardinality({d \in E : n \in d}) >= 2}
    IN  IF keep = E THEN E ELSE PruneLeaves(keep)

\* a find_cycle that reports a cycle in every component with a road
find_cycle_any_edge(E) == E # {}

\* nx.find_cycle: TRUE when it returns a cycle, FALSE for NetworkXNoCycle
find_cycle(E) == PruneLeaves(E) # {}

RECURSIVE WalkTo(_, _, _, _)
\* the simple path from cur to target that avoids the visited nodes
WalkTo(E, cur, target, visited) ==
    IF cur = target THEN <<cur>>
    ELSE LET seen == visited \cup {cur}
             free == {e \in E : e \cap seen = {}}
             nxt == CHOOSE n \in (UNION {e \in E : cur \in e}) \ seen :
                        target \in Reach(free, {n})
         IN  <<cur>> \o WalkTo(E, nxt, target, seen)

\* nx.shortest_path in an acyclic component
shortest_path(E, source, target) == WalkTo(E, source, target, {})

RECURSIVE PathObjectsFacingBack(_, _)
\* a loop of Path.__init__ that appends only the occupants facing back
PathObjectsFacingBack(recs, order) ==
    IF Len(order) < 2 THEN <<>>
    ELSE LET i == order[1]
             j == order[2]
             obj == EdgeObject(recs, i, j)
             here == IF obj.kind = "Hamburger" THEN <<obj>>
                     ELSE IF obj.kind \in {"Agent", "Alien"}
                     THEN (IF obj.face = i THEN <<set_dir(obj, "left")>>
                           ELSE <<>>)
                     ELSE <<>>
         IN  here \o PathObjectsFacingBack(recs, Tail(order))

RECURSIVE PathObjects(_, _)
\* the loop of Path.__init__ over pairwise(path_order)
PathObjects(recs, order) ==
    IF Len(order) < 2 THEN <<>>
    ELSE LET i == order[1]
             j == order[2]
             obj == EdgeObject(recs, i, j)
             here == IF obj.kind = "Hamburger" THEN <<obj>>
                     ELSE IF obj.kind \in {"Agent", "Alien"}
                     THEN (IF obj.face = i THEN <<set_dir(obj, "left")>>
                           ELSE IF obj.face = j THEN <<set_dir(obj, "right")>>
                           ELSE <<>>)
                     ELSE <<>>
         IN  here \o PathObjects(recs, Tail(order))

\* Path.__init__ on the component with nodes c and edges E
PathInit(recs, c, E) ==
    LET end_nodes == SeqSet(OUTER_EDGES) \cap c
        left == SetMin(end_nodes)
        right == SetMax(end_nodes)
    IN  [left_end |-> left, right_end |-> right, length |-> Cardinality(E),
         objects |-> PathObjects(recs, shortest_path(E, left, right))]

RECURSIVE MakePathsLoop(_, _, _)
\* the loop of __make_paths over the components: a cycle sets the failure
\* flag and ends the loop, keeping the paths appended before it
MakePathsLoop(recs, comps, acc) ==
    IF comps = <<>> THEN [making_failed |-> FALSE, paths |-> acc]
    ELSE LET c == Head(comps)
             E == {e \in GraphEdges(recs) : e \subseteq c}
         IN  IF find_cycle(E)
             THEN [making_failed |-> TRUE, paths |-> acc]
             ELSE LET p == PathInit(recs, c, E)
                  IN  MakePathsLoop(recs, Tail(comps),
                          Append(acc, [p EXCEPT !.objects = check_food_chain(@)]))

\* Town.__make_paths on a Town that has not failed
make_paths(fc) ==
    LET recs == town_roads(fc)
    IN  MakePathsLoop(recs, connected_components(recs), <<>>)

(***************************************************************************)
(* Town.convert_edge called on two local stub ids                          *)
(***************************************************************************)
\* the local stub ids 4 * position + edge
StubIds == 0 .. (4 * NUM_TILE - 1)

InitEdge ==
    /\ arg \in StubIds \X StubIds
    /\ ret = <<>>
    /\ IdleTown /\ IdlePath /\ IdleRot /\ IdleSearch /\ IdleStaged

\* Town.convert_edge(arg[1]) and Town.convert_edge(arg[2])
ConvertEdges ==
    /\ ret = <<>>
    /\ ret' = <<convert_edge(arg[1]), convert_edge(arg[2])>>
    /\ UNCHANGED <<arg, townVars, pathVars, rotVars, searchVars, stagedVars>>

NextEdge == ConvertEdges

SpecEdge == InitEdge /\ [][NextEdge]_vars

\* the border a stub lies on: a horizontal or vertical unit segment of the
\* 3x3 grid, named by its row and column (edge 0 top, 1 left, 2 bottom,
\* 3 right)
Border(e) ==
    LET row == (e \div 4) \div LEN_SIDE
        col == (e \div 4) % LEN_SIDE
        edge == e % 4
    IN  CASE edge = 0 -> <<"h", row, col>>
          [] edge = 2 -> <<"h", row + 1, col>>
          [] edge = 1 -> <<"v", row, col>>
          [] edge = 3 -> <<"v", row, col + 1>>

\* the border lies on the rim of the grid
OnRim(b) ==
    \/ b[1] = "h" /\ b[2] \in {0, LEN_SIDE}
    \/ b[1] = "v" /\ b[3] \in {0, LEN_SIDE}

\* C14: two stubs get the same node id exactly when they lie on the same
\* border; a stub's id is in OUTER_EDGES exactly when its border is on the
\* rim; the ids are the 12 of OUTER_EDGES and the 12 of INNER_EDGES
C14_ConvertEdgeBorders ==
    ret # <<>> =>
        /\ (ret[1] = ret[2]) <=> (Border(arg[1]) = Border(arg[2]))
        /\ (ret[1] \in SeqSet(OUTER_EDGES)) <=> OnRim(Border(arg[1]))
        /\ ret[1] \in SeqSet(OUTER_EDGES) \cup SeqSet(INNER_EDGES)
        /\ Cardinality(SeqSet(OUTER_EDGES)) = 12
        /\ Cardinality({convert_edge(e) : e \in StubIds}) = 24

\* the right stub of cell 0 and the left stub of cell 1 share a node
C14_Witness ==
    /\ arg = <<3, 5>>
    /\ ret # <<>>
    /\ ret[1] = ret[2]
    /\ ret[1] \in SeqSet(INNER_EDGES)

(***************************************************************************)
(* town.py: Town.most_adjacent, Town.theme_point, Town.get_theme_point     *)
(***************************************************************************)
\* the edges of posgraph: rows pairwise above each other, columns pairwise
\* beside each other
PosGraphEdges ==
    {{i * LEN_SIDE + j, (i - 1) * LEN_SIDE + j} :
        i \in 1 .. (LEN_SIDE - 1), j \in 0 .. (LEN_SIDE - 1)}
    \cup {{i * LEN_SIDE + j, i * LEN_SIDE + (j - 1)} :
        i \in 0 .. (LEN_SIDE - 1), j \in 1 .. (LEN_SIDE - 1)}

\* Town.most_adjacent on a non-empty set of positions (max() of no
\* component raises ValueError; theme_point never passes an empty list)
most_adjacent(positions) ==
    LET E == {e \in PosGraphEdges : e \subseteq positions}
    IN  SetMax({Cardinality(Reach(E, {q})) : q \in positions})

\* max() of no component raises ValueError
most_adjacent_raises(positions) == positions = {}

(***************************************************************************)
(* Town.most_adjacent called on a list of grid positions (the subgraph     *)
(* keeps each position once, so the list counts as a set)                  *)
(***************************************************************************)
InitAdjacent ==
    /\ arg \in SUBSET Positions
    /\ ret = <<>>
    /\ IdleTown /\ IdlePath /\ IdleRot /\ IdleSearch /\ IdleStaged

\* Town.most_adjacent(arg): the size returned, or the exception raised
MostAdjacent ==
    /\ pc = "idle"
    /\ ret = <<>>
    /\ IF most_adjacent_raises(arg)
       THEN pc' = "error" /\ ret' = ret
       ELSE pc' = "returned" /\ ret' = <<most_adjacent(arg)>>
    /\ UNCHANGED <<arg, tiles, tile_list, pattern, face, making_failed, paths,
                   idx, pathVars, rotVars, searchVars, stagedVars>>

NextAdjacent == MostAdjacent

SpecAdjacent == InitAdjacent /\ [][NextAdjacent]_vars

\* two grid positions next to each other in a row or in a column
RowColNeighbours(p, q) ==
    LET dr == (p \div LEN_SIDE) - (q \div LEN_SIDE)
        dc == (p % LEN_SIDE) - (q % LEN_SIDE)
    IN  dr * dr + dc * dc = 1

RECURSIVE Cluster(_, _)
\* the positions of S joined to those of C by steps between neighbours
Cluster(S, C) ==
    LET D == C \cup {q \in S : \E p \in C : RowColNeighbours(p, q)}
    IN  IF D = C THEN C ELSE Cluster(S, D)

\* the size of the largest 4-connected cluster of S, 0 for no position
LargestCluster(S) ==
    IF S = {} THEN 0
    ELSE CHOOSE n \in 1 .. NUM_TILE :
             /\ \E q \in S : Cardinality(Cluster(S, {q})) = n
             /\ \A q \in S : Cardinality(Cluster(S, {q})) <= n

\* C19: Town.most_adjacent returns the size of the largest 4-connected
\* cluster among the given positions, and 0 for no position
C19_LargestClusterOrZero ==
    pc # "idle" => (pc = "returned" /\ ret = <<LargestCluster(arg)>>)

\* Town.get_roads: the roads of all faces, in order of position
RECURSIVE TownGetRoadsFrom(_, _)
TownGetRoadsFrom(fc, i) ==
    IF i = NUM_TILE THEN <<>> ELSE fc[i].roads \o TownGetRoadsFrom(fc, i + 1)

RECURSIVE AllObjectsFrom(_, _)
AllObjectsFrom(ps, k) ==
    IF k > Len(ps) THEN <<>> ELSE ps[k].objects \o AllObjectsFrom(ps, k + 1)

\* the occupants of all paths (for path ... for obj in path.get_objects())
AllObjects(ps) == AllObjectsFrom(ps, 1)

CountIn(objs, Test(_)) == Cardinality({k \in 1 .. Len(objs) : Test(objs[k])})

IsAgent(o) == o.kind = "Agent"
IsAlien(o) == o.kind = "Alien"
IsHamburger(o) == o.kind = "Hamburger"
IsFreeAlien(o) == o.kind = "Alien" /\ AlienIsFree(o)
IsCapturedAlien(o) == o.kind = "Alien" /\ ~AlienIsFree(o)

FaceSum(fc, Num(_)) == SumSeq([k \in 1 .. NUM_TILE |-> Num(fc[k - 1])])

NumDog(f) == f.num_dog
NumGirl(f) == f.num_girl
NumBoy(f) == f.num_boy
NumHouse(f) == f.num_house
NumUfo(f) == f.num_ufo
NumAgentOffroad(f) == f.num_agent_offroad
NumAlienOffroadCaptured(f) == f.num_alien_offroad_captured

RECURSIVE Theme2ScanCountingOn(_, _, _, _)
\* a theme 2 scan that goes on counting past a right-facing agent
Theme2ScanCountingOn(objs, k, right_face_agent, num_stuck_alien) ==
    IF k > Len(objs) THEN <<>>
    ELSE LET obj == objs[k]
         IN  IF ~right_face_agent
             THEN Theme2ScanCountingOn(objs, k + 1,
                             obj.kind = "Agent" /\ obj.dir = "right",
                             num_stuck_alien)
             ELSE LET n == IF obj.kind = "Alien" THEN num_stuck_alien + 1
                           ELSE num_stuck_alien
                  IN  IF obj.kind = "Agent"
                      THEN (IF obj.dir = "left"
                            THEN <<n>> \o Theme2ScanCountingOn(objs, k + 1, FALSE, 0)
                            ELSE Theme2ScanCountingOn(objs, k + 1, TRUE, n))
                      ELSE Theme2ScanCountingOn(objs, k + 1, TRUE, n)

RECURSIVE Theme2Scan(_, _, _, _)
\* theme 2, one path: the values appended to num_stuck_list
Theme2Scan(objs, k, right_face_agent, num_stuck_alien) ==
    IF k > Len(objs) THEN <<>>
    ELSE LET obj == objs[k]
         IN  IF ~right_face_agent
             THEN Theme2Scan(objs, k + 1,
                             obj.kind = "Agent" /\ obj.dir = "right",
                             num_stuck_alien)
             ELSE LET n == IF obj.kind = "Alien" THEN num_stuck_alien + 1
                           ELSE num_stuck_alien
                  IN  IF obj.kind = "Agent"
                      THEN (IF obj.dir = "left"
                            THEN <<n>> \o Theme2Scan(objs, k + 1, FALSE, 0)
                            ELSE Theme2Scan(objs, k + 1, TRUE, 0))
                      ELSE Theme2Scan(objs, k + 1, TRUE, n)

RECURSIVE Theme16ScanAnyAlien(_, _, _, _)
\* a theme 16 scan that lets captured aliens end a run too
Theme16ScanAnyAlien(objs, k, hamburger_in_path, right_face_alien) ==
    IF k > Len(objs)
    THEN (IF right_face_alien THEN <<hamburger_in_path>> ELSE <<>>)
    ELSE LET obj == objs[k]
         IN  IF obj.kind = "Hamburger"
             THEN Theme16ScanAnyAlien(objs, k + 1, hamburger_in_path + 1, right_face_alien)
             ELSE IF obj.kind = "Alien"
             THEN (IF right_face_alien
                   THEN <<hamburger_in_path>>
                        \o Theme16ScanAnyAlien(objs, k + 1, 0,
                               IF obj.dir = "left" THEN FALSE ELSE TRUE)
                   ELSE IF obj.dir = "right"
                   THEN Theme16ScanAnyAlien(objs, k + 1, 0, TRUE)
                   ELSE IF obj.dir = "left"
                   THEN <<hamburger_in_path>> \o Theme16ScanAnyAlien(objs, k + 1, 0, FALSE)
                   ELSE Theme16ScanAnyAlien(objs, k + 1, 0, FALSE))
             ELSE Theme16ScanAnyAlien(objs, k + 1, hamburger_in_path, right_face_alien)

RECURSIVE Theme16Scan(_, _, _, _)
\* theme 16, one path: the values appended to num_hamburger_list
Theme16Scan(objs, k, hamburger_in_path, right_face_alien) ==
    IF k > Len(objs)
    THEN (IF right_face_alien THEN <<hamburger_in_path>> ELSE <<>>)
    ELSE LET obj == objs[k]
         IN  IF obj.kind = "Hamburger"
             THEN Theme16Scan(objs, k + 1, hamburger_in_path + 1, right_face_alien)
             ELSE IF obj.kind = "Alien" /\ AlienIsFree(obj)
             THEN (IF right_face_alien
                   THEN <<hamburger_in_path>>
                        \o Theme16Scan(objs, k + 1, 0,
                               IF obj.dir = "left" THEN FALSE ELSE TRUE)
                   ELSE IF obj.dir = "right"
                   THEN Theme16Scan(objs, k + 1, 0, TRUE)
                   ELSE IF obj.dir = "left"
                   THEN <<hamburger_in_path>> \o Theme16Scan(objs, k + 1, 0, FALSE)
                   ELSE Theme16Scan(objs, k + 1, 0, FALSE))
             ELSE Theme16Scan(objs, k + 1, hamburger_in_path, right_face_alien)

RECURSIVE Theme18Scan(_, _, _, _, _)
\* theme 18, one path: the values appended to num_running_alien_list
Theme18Scan(objs, k, agent_exists, num_right, num_left) ==
    IF k > Len(objs)
    THEN (IF agent_exists THEN <<num_left>> ELSE <<>>)
    ELSE LET obj == objs[k]
         IN  IF obj.kind = "Agent"
             THEN (IF agent_exists THEN <<num_left>> ELSE <<>>)
                  \o <<num_right>> \o Theme18Scan(objs, k + 1, TRUE, 0, 0)
             ELSE IF obj.kind = "Alien"
             THEN Theme18Scan(objs, k + 1, agent_exists,
                      IF obj.dir = "right" THEN num_right + 1 ELSE num_right,
                      IF obj.dir = "left" THEN num_left + 1 ELSE num_left)
             ELSE Theme18Scan(objs, k + 1, agent_exists, num_right, num_left)

RECURSIVE Theme20ScanAnyDir(_, _, _, _)
\* a theme 20 scan that takes an alien of either direction after the agent
Theme20ScanAnyDir(objs, k, right_seq_end, left_seq_end) ==
    IF k > Len(objs) THEN 0
    ELSE LET obj == objs[k]
             r1 == IF right_seq_end = "Agent"
                   THEN (IF obj.kind = "Alien"
                         THEN "Alien" ELSE "")
                   ELSE IF right_seq_end = "Alien" THEN ""
                   ELSE right_seq_end
             rhit == IF right_seq_end = "Alien" /\ obj.kind = "Hamburger"
                     THEN 1 ELSE 0
             r2 == IF r1 = "" /\ obj.kind = "Agent" /\ obj.dir = "right"
                   THEN "Agent" ELSE r1
             l1 == IF left_seq_end = "Hamburger"
                   THEN (IF obj.kind = "Alien" /\ obj.dir = "left"
                         THEN "Alien" ELSE "")
                   ELSE IF left_seq_end = "Alien" THEN ""
                   ELSE left_seq_end
             lhit == IF left_seq_end = "Alien" /\ obj.kind = "Agent"
                        /\ obj.dir = "left"
                     THEN 1 ELSE 0
             l2 == IF l1 = "" /\ obj.kind = "Hamburger" THEN "Hamburger" ELSE l1
         IN  rhit + lhit + Theme20ScanAnyDir(objs, k + 1, r2, l2)

RECURSIVE Theme20Scan(_, _, _, _)
\* theme 20, one path: what the path adds to num_seq
Theme20Scan(objs, k, right_seq_end, left_seq_end) ==
    IF k > Len(objs) THEN 0
    ELSE LET obj == objs[k]
             r1 == IF right_seq_end = "Agent"
                   THEN (IF obj.kind = "Alien" /\ obj.dir = "right"
                         THEN "Alien" ELSE "")
                   ELSE IF right_seq_end = "Alien" THEN ""
                   ELSE right_seq_end
             rhit == IF right_seq_end = "Alien" /\ obj.kind = "Hamburger"
                     THEN 1 ELSE 0
             r2 == IF r1 = "" /\ obj.kind = "Agent" /\ obj.dir = "right"
                   THEN "Agent" ELSE r1
             l1 == IF left_seq_end = "Hamburger"
                   THEN (IF obj.kind = "Alien" /\ obj.dir = "left"
                         THEN "Alien" ELSE "")
                   ELSE IF left_seq_end = "Alien" THEN ""
                   ELSE left_seq_end
             lhit == IF left_seq_end = "Alien" /\ obj.kind = "Agent"
                        /\ obj.dir = "left"
                     THEN 1 ELSE 0
             l2 == IF l1 = "" /\ obj.kind = "Hamburger" THEN "Hamburger" ELSE l1
         IN  rhit + lhit + Theme20Scan(objs, k + 1, r2, l2)

RECURSIVE Flatten(_)
Flatten(ss) == IF ss = <<>> THEN <<>> ELSE Head(ss) \o Flatten(Tail(ss))

\* the values a per-path scan appends, over all paths in order
ConcatMap(ps, Scan(_)) == Flatten([k \in 1 .. Len(ps) |-> Scan(ps[k].objects)])

PathLengths(ps) == [k \in 1 .. Len(ps) |-> ps[k].length]

AdjacentWhere(fc, Test(_)) ==
    LET where == {q \in Positions : Test(fc[q])}
    IN  IF Cardinality(where) > 0 THEN most_adjacent(where) ELSE 0

HasDog(f) == f.num_dog > 0
HasNoAlien(f) == ~alien_exist(f)
HasCitizen(f) == FaceNumCitizen(f) > 0
HasHouse(f) == f.num_house > 0
Min2(a, b) == IF a <= b THEN a ELSE b

\* Town.theme_point where theme 1 forgets the captured aliens off the road
theme1_on_road_only(fc, ps) == CountIn(AllObjects(ps), IsCapturedAlien)

\* theme 1: captured aliens on the paths and off the road
theme1(fc, ps) ==
    CountIn(AllObjects(ps), IsCapturedAlien) + FaceSum(fc, NumAlienOffroadCaptured)

\* theme 9: agents on the faces, on and off the road
theme9(fc, ps) == FaceSum(fc, FaceNumAgent)

\* theme 20: agent, alien, hamburger in a row, in either direction
theme20(fc, ps) ==
    LET S(objs) == <<Theme20Scan(objs, 1, "", "")>>
    IN  SumSeq(ConcatMap(ps, S))

\* Town.theme_point(no); themes 5 and 13 raise ValueError on a Town without
\* paths (max() of an empty list), see theme_raises
theme_point(fc, ps, no) ==
    CASE no = 1 -> theme1(fc, ps)
      [] no = 2 -> LET S(objs) == Theme2Scan(objs, 1, FALSE, 0)
                   IN  MaxSeq(<<0>> \o ConcatMap(ps, S))
      [] no = 3 -> AdjacentWhere(fc, HasDog)
      [] no = 4 -> 0
      [] no = 5 -> MaxSeq(PathLengths(ps))
      [] no = 6 -> LET rs == TownGetRoadsFrom(fc, 0)
                   IN  Cardinality({k \in 1 .. Len(rs) : is_curve(rs[k])})
      [] no = 7 -> FaceSum(fc, NumHouse)
      [] no = 8 -> CountIn(AllObjects(ps), IsFreeAlien)
                   * CountIn(AllObjects(ps), IsHamburger)
      [] no = 9 -> theme9(fc, ps)
      [] no = 10 -> Len(ps)
      [] no = 11 -> Cardinality({q \in Positions : Len(fc[q].roads) = 0})
      [] no = 12 -> FaceSum(fc, NumDog)
      [] no = 13 -> LET ls == PathLengths(ps)
                    IN  SetMax({Cardinality({k \in 1 .. Len(ls) : ls[k] = n}) :
                                   n \in SeqSet(ls)})
      [] no = 14 -> LET S(objs) == <<CountIn(objs, IsAgent)>>
                    IN  MaxSeq(<<0>> \o ConcatMap(ps, S))
      [] no = 15 -> -Len(ps)
      [] no = 16 -> LET S(objs) == Theme16Scan(objs, 1, 0, FALSE)
                    IN  MaxSeq(<<0>> \o ConcatMap(ps, S))
      [] no = 17 -> FaceSum(fc, NumUfo) * CountIn(AllObjects(ps), IsFreeAlien)
      [] no = 18 -> LET S(objs) == Theme18Scan(objs, 1, FALSE, 0, 0)
                    IN  MaxSeq(<<0>> \o ConcatMap(ps, S))
      [] no = 19 -> LET S(objs) == <<CountIn(objs, IsFreeAlien)>>
                    IN  MaxSeq(<<0>> \o ConcatMap(ps, S))
      [] no = 20 -> theme20(fc, ps)
      [] no = 21 -> AdjacentWhere(fc, HasNoAlien)
      [] no = 22 -> AdjacentWhere(fc, HasCitizen)
      [] no = 23 -> AdjacentWhere(fc, HasHouse)
      [] no = 24 -> Min2(FaceSum(fc, FaceNumCitizen), FaceSum(fc, NumDog))
      [] no = 25 -> FaceSum(fc, NumGirl)
      [] no = 26 -> FaceSum(fc, NumBoy)
      [] OTHER -> 0

\* theme_point(no) raises ValueError: max() of an empty list
theme_raises(ps, no) == no \in {5, 13} /\ Len(ps) = 0

\* Town.get_theme_point: the 26 points, or the exception
get_theme_point(fc, ps) ==
    IF \E no \in 1 .. NUM_THEME : theme_raises(ps, no)
    THEN [raised |-> TRUE, points |-> <<>>]
    ELSE [raised |-> FALSE,
          points |-> [no \in 1 .. NUM_THEME |-> theme_point(fc, ps, no)]]

(***************************************************************************)
(* Town.make, one step per check, per placement and for __make_paths       *)
(***************************************************************************)
Digits == 0 .. 9

Pat(tl, posn, dirn) == [tiles |-> tl, pattern |-> posn \o dirn]

\* Patterns Towns are built from: the fixture of tests/test_utils.py and a
\* second town of the real tiles, the two synonym towns of the tests, two
\* synonym towns with a closed loop (the second with an open road before
\* it), and a hand-built town whose only road carries an agent, an alien
\* and a hamburger
SeedPatterns == {
    Pat("original", <<2,0,6,7,4,5,8,1,3>>, <<3,6,1,2,3,0,0,3,5>>),
    Pat("original", <<8,1,2,5,6,0,3,4,7>>, <<1,2,2,3,3,6,5,0,3>>),
    Pat("synonym", <<2,2,4,2,2,1,1,1,3>>, <<0,0,0,1,0,0,0,3,1>>),
    Pat("synonym", <<0,0,0,1,1,3,1,2,3>>, <<0,0,0,1,2,1,3,0,1>>),
    Pat("synonym", <<1,1,0,1,1,0,0,0,0>>, <<2,1,0,3,0,0,0,0,0>>),
    Pat("synonym", <<1,0,0,0,1,1,0,1,1>>, <<0,0,0,0,2,1,0,3,0>>),
    Pat("hand", <<1,2,3,0,0,0,0,0,0>>, <<0,0,0,0,0,0,0,0,0>>) }

MaxExtra == 1

RECURSIVE Zeros(_)
Zeros(n) == IF n = 0 THEN <<>> ELSE <<0>> \o Zeros(n - 1)

\* a seed, a seed with one character replaced by any digit, a seed cut
\* short, or a seed with up to MaxExtra characters appended
MakeInputs ==
    SeedPatterns
    \cup {[sd EXCEPT !.pattern[k] = d] :
             sd \in SeedPatterns, k \in 1 .. (2 * NUM_TILE), d \in Digits}
    \cup {[sd EXCEPT !.pattern = SubSeq(@, 1, n)] :
             sd \in SeedPatterns, n \in 0 .. (2 * NUM_TILE - 1)}
    \cup {[sd EXCEPT !.pattern = @ \o Zeros(n)] :
             sd \in SeedPatterns, n \in 1 .. MaxExtra}

InitMake ==
    /\ \E inp \in MakeInputs : tiles = inp.tiles /\ pattern = inp.pattern
    /\ tile_list = TileList(tiles)
    /\ face = [p \in Positions |-> NoFace]
    /\ making_failed = FALSE
    /\ paths = <<>>
    /\ pc = "make"
    /\ idx = 0
    /\ IdlePath /\ IdleRot /\ IdleSearch /\ IdleCall /\ IdleStaged

\* the length test of Town.make, accepting any pattern that is long enough
LengthAtLeast(pat) == Len(pat) >= NUM_TILE * 2

\* the length test of Town.make
LengthOK(pat) == Len(pat) = NUM_TILE * 2

\* Town.make up to its loop: a pattern of another length raises
MakeBegin ==
    /\ pc = "make"
    /\ pc' = IF LengthOK(pattern) THEN "place" ELSE "error"
    /\ UNCHANGED <<tiles, tile_list, pattern, face, making_failed, paths, idx,
                   pathVars, rotVars, searchVars, callVars, stagedVars>>

\* an is_front that takes the code 4 for a front face
CodeIsFrontUpToFour(code) == code <= 4

\* is_front and angle of a placement code
CodeIsFront(code) == code < 4
CodeAngle(code) == code % 4

\* a loop that goes on to the next position after a failed placement
LoopAfterNoBreak(failed, i) ==
    IF i + 1 = NUM_TILE THEN (IF failed THEN "done" ELSE "derive") ELSE "place"

\* where Town.make goes after add_tile at position i: out of the loop on a
\* failure (and past __make_paths), to __make_paths after the last position
LoopAfter(failed, i) ==
    IF failed THEN "done" ELSE IF i + 1 = NUM_TILE THEN "derive" ELSE "place"

\* one pass of the loop of Town.make: tiles[int(pattern[i])] raises
\* IndexError for an index past the list, Tile.get_face raises for a
\* missing back face, a failed add_tile breaks out of the loop
MakePlace ==
    /\ pc = "place"
    /\ LET t == At(pattern, idx)
           code == At(pattern, idx + NUM_TILE)
       IN  IF t >= Len(TileList(tiles))
           THEN pc' = "error" /\ UNCHANGED <<face, making_failed, idx>>
           ELSE LET adding_face ==
                        TileGetFace(At(TileList(tiles), t), CodeIsFront(code),
                                    CodeAngle(code))
                IN  IF adding_face = NoFace
                    THEN pc' = "error" /\ UNCHANGED <<face, making_failed, idx>>
                    ELSE LET r == add_tile(face, making_failed, idx, adding_face)
                         IN  /\ face' = r.face
                             /\ making_failed' = r.making_failed
                             /\ idx' = IF r.making_failed THEN idx ELSE idx + 1
                             /\ pc' = LoopAfter(r.making_failed, idx)
    /\ UNCHANGED <<tiles, tile_list, pattern, paths, pathVars, rotVars, searchVars, callVars, stagedVars>>

\* the end of Town.make: __make_paths on a Town that has not failed
MakeDerive ==
    /\ pc = "derive"
    /\ LET r == make_paths(face)
       IN  /\ making_failed' = r.making_failed
           /\ paths' = r.paths
    /\ pc' = "done"
    /\ UNCHANGED <<tiles, tile_list, pattern, face, idx, pathVars, rotVars, searchVars, callVars, stagedVars>>

NextMake == MakeBegin \/ MakePlace \/ MakeDerive

SpecMake == InitMake /\ [][NextMake]_vars

(***************************************************************************)
(* Town.make: cycles, pattern length and pattern digits                    *)
(***************************************************************************)
\* the roads of the grid contain a closed loop: some road's two ends stay
\* connected when that road is taken away
RoadsHaveLoop(fc) ==
    LET E == GraphEdges(town_roads(fc))
    IN  \E e \in E :
            \/ Cardinality(e) = 1
            \/ \E a \in e : (e \ {a}) \subseteq Reach(E \ {e}, {a})

\* C2: when Town.make has finished without an exception, then either all
\* nine faces were placed and the Town is failed exactly when its roads
\* contain a closed loop, or a placement failed and no path was derived
C2_CycleFailsTown ==
    pc = "done" =>
        IF NumPlaced(face) = NUM_TILE
        THEN making_failed <=> RoadsHaveLoop(face)
        ELSE making_failed /\ paths = <<>>

C2_Witness ==
    /\ pc = "done"
    /\ NumPlaced(face) = NUM_TILE
    /\ RoadsHaveLoop(face)
    /\ making_failed

\* C12: once the placement at position idx has failed, Town.make is over:
\* the cells below idx hold faces, cell idx and the cells above it are
\* empty, no path is derived, and no later step touches the grid, the
\* failure flag or the paths
C12_ShortCircuit ==
    /\ []((making_failed /\ idx < NUM_TILE) =>
             /\ pc = "done"
             /\ paths = <<>>
             /\ \A p \in Positions : (p < idx) <=> (face[p] # NoFace))
    /\ [][making_failed =>
             (face' = face /\ making_failed' /\ paths' = paths)]_vars

C12_Witness ==
    /\ pc = "done"
    /\ making_failed
    /\ idx \in 1 .. (NUM_TILE - 2)
    /\ \A p \in Positions : (p < idx) <=> (face[p] # NoFace)

\* the face the pattern names for position p: the front face of tile
\* pattern[p] turned c times for a code c in 0..3, its back face turned c - 4
\* times for a code c in 4..7
DecodedFace(p) ==
    LET tile == At(TileList(tiles), At(pattern, p))
        c == At(pattern, p + NUM_TILE)
        side == IF c <= 3 THEN tile.front_face ELSE tile.back_face
        turns == IF c <= 3 THEN c ELSE c - 4
    IN  IF side = NoFace THEN NoFace ELSE TileFaceRotate(side, turns)

\* C13: every face Town.make has placed at a position whose code is in 0..7
\* is the face the pattern names for that position, and __make_paths is
\* reached only with all nine positions placed
C13_DecodesPattern ==
    /\ \A p \in Positions :
          (face[p] # NoFace /\ At(pattern, p + NUM_TILE) <= 7)
              => face[p] = DecodedFace(p)
    /\ (pc = "derive") => (NumPlaced(face) = NUM_TILE)

C13_Witness ==
    /\ pc = "done"
    /\ ~making_failed
    /\ \A p \in Positions : face[p] = DecodedFace(p)
    /\ \E p \in Positions : At(pattern, p + NUM_TILE) \in 1 .. 3
    /\ \E p \in Positions : At(pattern, p + NUM_TILE) \in 5 .. 7
    /\ \E p \in Positions : At(pattern, p + NUM_TILE) = 4

\* C9: a pattern whose length is not 18 never leaves the length test except
\* into the error outcome; no cell is filled and no path is derived
C9_WrongLengthRejected ==
    Len(pattern) # 2 * NUM_TILE =>
        /\ pc \in {"make", "error"}
        /\ NumPlaced(face) = 0
        /\ paths = <<>>

C9_Witness ==
    /\ Len(pattern) = 2 * NUM_TILE + 1
    /\ pc = "error"
    /\ NumPlaced(face) = 0

\* a tile index without an entry in the tile list, or a placement code 8 or 9
HasOutOfRangeDigit ==
    /\ Len(pattern) = 2 * NUM_TILE
    /\ \/ \E i \in 0 .. (NUM_TILE - 1) : At(pattern, i) >= Len(TileList(tiles))
       \/ \E i \in 0 .. (NUM_TILE - 1) : At(pattern, i + NUM_TILE) \in {8, 9}

\* C10: an 18-character pattern with an out-of-range digit is rejected
\* before any tile is placed, and Town.make never completes on it
C10_OutOfRangeRejected ==
    HasOutOfRangeDigit => (NumPlaced(face) = 0 /\ pc # "done")

(***************************************************************************)
(* Town.get_theme_point on finished Towns                                  *)
(***************************************************************************)
\* the Town has exactly one path, carrying a right-facing Agent, an Alien
\* and a Hamburger in that order, and no off-road agent or captured alien
OneChainPath ==
    /\ pc = "done"
    /\ ~making_failed
    /\ Len(paths) = 1
    /\ Len(paths[1].objects) = 3
    /\ paths[1].objects[1].kind = "Agent"
    /\ paths[1].objects[1].dir = "right"
    /\ paths[1].objects[2].kind = "Alien"
    /\ paths[1].objects[3].kind = "Hamburger"
    /\ FaceSum(face, NumAgentOffroad) = 0
    /\ FaceSum(face, NumAlienOffroadCaptured) = 0

\* C6 as stated: theme 20 is 1, theme 9 is 1 and theme 1 is 0
C6_ChainThemesAsStated ==
    OneChainPath =>
        /\ theme_point(face, paths, 20) = 1
        /\ theme_point(face, paths, 9) = 1
        /\ theme_point(face, paths, 1) = 0

\* C6: on such a Town the agent captures the alien, so theme 1 is 1; theme 9
\* is 1; theme 20 is 1 when the alien faces right, towards the hamburger,
\* and 0 when it faces left
C6_ChainThemes ==
    OneChainPath =>
        /\ theme_point(face, paths, 1) = 1
        /\ theme_point(face, paths, 9) = 1
        /\ theme_point(face, paths, 20)
               = (IF paths[1].objects[2].dir = "right" THEN 1 ELSE 0)
        /\ paths[1].objects[2].is_captured
        /\ paths[1].objects[2].captured_agent = 0

C6_Witness ==
    /\ OneChainPath
    /\ paths[1].objects[2].dir = "right"
    /\ paths[1].objects[3].is_eaten
    /\ theme_point(face, paths, 20) = 1

\* a position_lookup whose half turn is the grid flipped top to bottom
position_lookup_flipped == <<
    <<0, 1, 2, 3, 4, 5, 6, 7, 8>>,
    <<2, 5, 8, 1, 4, 7, 0, 3, 6>>,
    <<6, 7, 8, 3, 4, 5, 0, 1, 2>>,
    <<6, 3, 0, 7, 4, 1, 8, 5, 2>> >>

\* Search.position_lookup
position_lookup == <<
    <<0, 1, 2, 3, 4, 5, 6, 7, 8>>,
    <<2, 5, 8, 1, 4, 7, 0, 3, 6>>,
    <<8, 7, 6, 5, 4, 3, 2, 1, 0>>,
    <<6, 3, 0, 7, 4, 1, 8, 5, 2>> >>

\* the grid turned by angle quarter turns: the cell p receives the face of
\* the cell position_lookup[angle][p], rotated by angle
RotatedGrid(fc, angle) ==
    [p \in Positions |->
        TileFaceRotate(fc[At(At(position_lookup, angle), p)], angle)]

\* the 26 points of the Town built on the grid turned by angle
RotatedThemes(fc, angle) ==
    LET g == RotatedGrid(fc, angle)
        r == make_paths(g)
    IN  [failed |-> r.making_failed, themes |-> get_theme_point(g, r.paths)]

\* C7: a quarter turn of the whole board of a finished, non-failed Town
\* gives a non-failed Town with the same 26 theme points
C7_ThemesRotationInvariant ==
    (pc = "done" /\ ~making_failed) =>
        LET r == RotatedThemes(face, 1)
        IN  ~r.failed /\ r.themes = get_theme_point(face, paths)

(***************************************************************************)
(* Rotating a catalog face, one TileFace.rotate call per step              *)
(***************************************************************************)
MaxTurns == 8

CatalogFaces ==
    {OriginalTiles[k].front_face : k \in 1 .. Len(OriginalTiles)}
    \cup {OriginalTiles[k].back_face : k \in 1 .. Len(OriginalTiles)}
    \cup {SynonymTiles[k].front_face : k \in 1 .. Len(SynonymTiles)}

InitRotate ==
    /\ rorig \in CatalogFaces
    /\ rface = rorig
    /\ rturns = 0
    /\ IdleTown /\ IdlePath /\ IdleSearch /\ IdleCall /\ IdleStaged

\* face.rotate(angle) on the current face
Rotate(angle) ==
    /\ rturns + angle <= MaxTurns
    /\ rface' = TileFaceRotate(rface, angle)
    /\ rturns' = rturns + angle
    /\ UNCHANGED <<rorig, townVars, pathVars, searchVars, callVars, stagedVars>>

NextRotate == \E angle \in 0 .. 4 : Rotate(angle)

SpecRotate == InitRotate /\ [][NextRotate]_vars

\* C8: a face rotated through a whole number of full turns (4 quarter turns
\* in one call, four single quarter turns, or any other split) equals the
\* original face in every field
C8_RotateFourIsIdentity == (rturns % 4 = 0) => (rface = rorig)

C8_Witness ==
    /\ rturns = 4
    /\ rface = rorig
    /\ \E k \in 1 .. Len(rorig.roads) : rorig.roads[k].agent_face # None

(***************************************************************************)
(* Path.check_food_chain called repeatedly on one Path                     *)
(***************************************************************************)
MaxObjs == 4
MaxRuns == 2

\* the occupants Path.__init__ appends: a Hamburger, or an Agent or Alien
\* whose direction is set; the faced node plays no part in the food chain
PathOccupants ==
    {Hamburger}
    \cup {set_dir(Agent(0), d) : d \in {"left", "right"}}
    \cup {set_dir(Alien(0), d) : d \in {"left", "right"}}

InitFood ==
    /\ \E n \in 0 .. MaxObjs : objects \in [1 .. n -> PathOccupants]
    /\ runs = 0
    /\ IdleTown /\ IdleRot /\ IdleSearch /\ IdleCall /\ IdleStaged

\* one call of Path.check_food_chain
CheckFoodChain ==
    /\ runs < MaxRuns
    /\ objects' = check_food_chain(objects)
    /\ runs' = runs + 1
    /\ UNCHANGED <<townVars, rotVars, searchVars, callVars, stagedVars>>

NextFood == CheckFoodChain

SpecFood == InitFood /\ [][NextFood]_vars

\* C5: a call of check_food_chain after the first leaves every occupant as
\* the call before left it
C5_FoodChainIdempotent == [][runs >= 1 => objects' = objects]_vars

\* the places in the eaten-by list of the hamburger at index i that name
\* an index to its left, or to its right
EatersOn(i, left) ==
    {k \in 1 .. Len(At(objects, i).ate_alien) :
        LET a == At(objects, i).ate_alien[k]
        IN  IF left THEN a < i ELSE a > i}

\* C17: after check_food_chain has run once on a path, every Hamburger's
\* eaten-by list has at most two entries: at most one names an alien to its
\* left, which faces right, and at most one an alien to its right, which
\* faces left
C17_EatenByAtMostTwo ==
    runs = 1 =>
        \A i \in 0 .. (Len(objects) - 1) :
            IsHamburger(At(objects, i)) =>
                LET ate == At(objects, i).ate_alien
                IN  /\ Len(ate) <= 2
                    /\ Cardinality(EatersOn(i, TRUE)) <= 1
                    /\ Cardinality(EatersOn(i, FALSE)) <= 1
                    /\ \A k \in 1 .. Len(ate) :
                           /\ ate[k] \in 0 .. (Len(objects) - 1)
                           /\ ate[k] # i
                           /\ IsAlien(At(objects, ate[k]))
                           /\ At(objects, ate[k]).dir =
                                  (IF ate[k] < i THEN "right" ELSE "left")

\* one run has left a hamburger eaten from both sides
C17_Witness ==
    /\ runs = 1
    /\ \E i \in 0 .. (Len(objects) - 1) :
           /\ IsHamburger(At(objects, i))
           /\ Len(At(objects, i).ate_alien) = 2
           /\ Cardinality(EatersOn(i, TRUE)) = 1
           /\ Cardinality(EatersOn(i, FALSE)) = 1

\* the occupant at index i is an Agent, or an Alien, with this direction
AgentFacing(i, d) == IsAgent(At(objects, i)) /\ At(objects, i).dir = d
AlienFacing(i, d) == IsAlien(At(objects, i)) /\ At(objects, i).dir = d

\* the alien at index j had been captured when the loop reached index i
CapturedBefore(j, i) ==
    /\ At(objects, j).is_captured
    /\ At(objects, j).captured_agent < i

\* an index set's largest member, None for the empty set
Latest(S) == IF S = {} THEN None ELSE SetMax(S)

\* the most recent alien before i that faces d and was uncaptured when the
\* loop reached i
LatestUncaptured(i, d) ==
    Latest({j \in 0 .. (i - 1) : AlienFacing(j, d) /\ ~CapturedBefore(j, i)})

\* the most recent alien before i that faces d and that no right-facing
\* agent took on arrival, unless it had been captured when the loop reached
\* i: then none
Pending(i, d) ==
    LET j == Latest({k \in 0 .. (i - 1) :
                        AlienFacing(k, d) /\ ~CapturedBefore(k, k)})
    IN  IF j = None \/ CapturedBefore(j, i) THEN None ELSE j

\* what the agent at index i has captured, None for nothing
Captures(i) ==
    IF At(objects, i).is_capturing THEN At(objects, i).capturing_alien
    ELSE None

\* C21 as stated: a left-facing Agent at index i captures the larger of the
\* most recent uncaptured left-facing alien and the most recent uncaptured
\* right-facing alien before it, and nothing when there is neither
C21_CapturesLatestUncaptured ==
    runs = 1 =>
        \A i \in 0 .. (Len(objects) - 1) :
            AgentFacing(i, "left") =>
                Captures(i) = Latest({LatestUncaptured(i, "left"),
                                      LatestUncaptured(i, "right")})

\* C21 amended: the candidates are, per orientation, the most recent alien
\* that arrived uncaptured, and only while it is still uncaptured; the agent
\* captures the larger candidate, nothing when there is none, and the
\* captured alien alone stops being a candidate
C21_CapturesPending ==
    runs = 1 =>
        \A i \in 0 .. (Len(objects) - 1) :
            AgentFacing(i, "left") =>
                /\ Captures(i) = Latest({Pending(i, "left"),
                                         Pending(i, "right")})
                /\ \A d \in {"left", "right"} :
                       (Pending(i, d) # None /\ Pending(i, d) # Captures(i))
                           => Pending(i + 1, d) = Pending(i, d)
                /\ Captures(i) # None =>
                       /\ At(objects, Captures(i)).is_captured
                       /\ At(objects, Captures(i)).captured_agent = i

\* two left-facing agents behind a left-facing and a right-facing alien: the
\* first takes the nearer alien, the second the farther one
C21_Witness ==
    /\ runs = 1
    /\ \E i \in 0 .. (Len(objects) - 1), k \in 0 .. (Len(objects) - 1) :
           /\ i < k
           /\ AgentFacing(i, "left") /\ AgentFacing(k, "left")
           /\ Captures(i) # None /\ Captures(k) # None
           /\ Captures(k) < Captures(i)
           /\ Pending(i, "left") # None /\ Pending(i, "right") # None

\* the indices a hamburger's eaten-by list names
Eaters(j) ==
    {At(objects, j).ate_alien[n] : n \in 1 .. Len(At(objects, j).ate_alien)}

\* the most recent right-facing alien before index j, None for none
HangryBefore(j) == Latest({k \in 0 .. (j - 1) : AlienFacing(k, "right")})

\* C22: feeding never clears the hangry right-facing alien: every Hamburger
\* records the most recent right-facing Alien before it in its eaten-by
\* list, whatever that alien has eaten already, and records no index to its
\* left when there is no such alien
C22_HangryAlienKeepsEating ==
    runs >= 1 =>
        \A j \in 0 .. (Len(objects) - 1) :
            IsHamburger(At(objects, j)) =>
                IF HangryBefore(j) = None
                THEN \A k \in Eaters(j) : k > j
                ELSE {k \in Eaters(j) : k < j} = {HangryBefore(j)}

\* one right-facing alien recorded as eater on two hamburgers
C22_Witness ==
    /\ runs = 1
    /\ \E j \in 0 .. (Len(objects) - 1), m \in 0 .. (Len(objects) - 1) :
           /\ j < m
           /\ IsHamburger(At(objects, j)) /\ IsHamburger(At(objects, m))
           /\ HangryBefore(j) # None
           /\ HangryBefore(j) \in Eaters(j) \cap Eaters(m)

\* C23: feeding is recorded on both sides alike: alien k's eating index is
\* j exactly when hamburger j's eaten-by list contains k
C23_FeedingRecordedBothSides ==
    runs = 1 =>
        \A k \in 0 .. (Len(objects) - 1), j \in 0 .. (Len(objects) - 1) :
            (IsAlien(At(objects, k)) /\ IsHamburger(At(objects, j))) =>
                ((At(objects, k).eating /\ At(objects, k).eating_hamburger = j)
                     <=> k \in Eaters(j))

\* the agent the alien at index j records as its captor, None for none
CapturedBy(j) ==
    IF At(objects, j).is_captured THEN At(objects, j).captured_agent ELSE None

\* C27: after one run capture is a one-to-one pairing: agent i records
\* capturing alien j exactly when alien j records being captured by agent
\* i, no agent has two aliens and no alien two agents, and the agent faces
\* its alien (a right-facing agent sits before it, a left-facing one after)
C27_CaptureIsPairing ==
    runs = 1 =>
        LET I == 0 .. (Len(objects) - 1)
            agents == {i \in I : IsAgent(At(objects, i))}
            aliens == {j \in I : IsAlien(At(objects, j))}
        IN  /\ \A i \in agents : Captures(i) # None => Captures(i) \in aliens
            /\ \A j \in aliens : CapturedBy(j) # None => CapturedBy(j) \in agents
            /\ \A i \in agents, j \in aliens :
                   (Captures(i) = j) <=> (CapturedBy(j) = i)
            /\ \A i \in agents, k \in agents :
                   (Captures(i) # None /\ Captures(i) = Captures(k)) => i = k
            /\ \A j \in aliens, m \in aliens :
                   (CapturedBy(j) # None /\ CapturedBy(j) = CapturedBy(m))
                       => j = m
            /\ \A i \in agents :
                   Captures(i) # None =>
                       IF At(objects, i).dir = "right" THEN i < Captures(i)
                       ELSE Captures(i) < i

\* a path with two pairs, one made by a right-facing agent and one by a
\* left-facing agent
C27_Witness ==
    /\ runs = 1
    /\ \E i \in 0 .. (Len(objects) - 1), k \in 0 .. (Len(objects) - 1) :
           /\ AgentFacing(i, "right") /\ AgentFacing(k, "left")
           /\ Captures(i) # None /\ Captures(k) # None
           /\ CapturedBy(Captures(i)) = i /\ CapturedBy(Captures(k)) = k

\* an occupant as Path.__init__ appends it, before any capture or feeding
Fresh(o) ==
    CASE IsAgent(o) -> set_dir(Agent(o.face), o.dir)
      [] IsAlien(o) -> set_dir(Alien(o.face), o.dir)
      [] IsHamburger(o) -> Hamburger

OtherDir(d) == IF d = "left" THEN "right" ELSE "left"

\* the mirror image of an occupant sequence: the order reversed and every
\* orientation swapped
Mirror(objs) ==
    [n \in 1 .. Len(objs) |->
        LET o == Fresh(objs[Len(objs) + 1 - n])
        IN  IF IsHamburger(o) THEN o ELSE set_dir(o, OtherDir(o.dir))]

NumCaptured(objs) ==
    Cardinality({n \in 1 .. Len(objs) : IsAlien(objs[n]) /\ objs[n].is_captured})

\* C28: resolving an occupant sequence and resolving its mirror image give
\* the same number of captured aliens
C28_MirrorSameCaptures ==
    runs = 1 => NumCaptured(objects) = NumCaptured(check_food_chain(Mirror(objects)))

(***************************************************************************)
(* utils.py: Search, rotating and canonicalising synonym patterns          *)
(***************************************************************************)
RECURSIVE MakeLoop(_, _, _, _)
\* the loop of Town.make from position i on, on a pattern of the right
\* length whose digits name existing faces
MakeLoop(tl, pat, fc, i) ==
    IF i = NUM_TILE THEN [face |-> fc, making_failed |-> FALSE]
    ELSE LET code == At(pat, i + NUM_TILE)
             adding_face == TileGetFace(At(TileList(tl), At(pat, i)),
                                        CodeIsFront(code), CodeAngle(code))
             r == add_tile(fc, FALSE, i, adding_face)
         IN  IF r.making_failed THEN r ELSE MakeLoop(tl, pat, r.face, i + 1)

\* Town(pattern, tiles).has_failed()
TownHasFailed(tl, pat) ==
    LET r == MakeLoop(tl, pat, [p \in Positions |-> NoFace], 0)
    IN  IF r.making_failed THEN TRUE ELSE make_paths(r.face).making_failed

\* Search.replace
replace(s, n, c) == [s EXCEPT ![n + 1] = c]

\* a rotate that writes the code a over the character, whatever turn it had
rotate_overwriting(s, n, a) == [s EXCEPT ![n + 1] = a]

\* Search.rotate
rotate(s, n, a) ==
    [s EXCEPT ![n + 1] =
        ((((@ \div 4) + (a \div 4)) % 2) * 4) + (((@ % 4) + a) % 4)]

\* a rotate_synonym_tile that turns every road class through four angles
rotate_synonym_tile_mod4(tile_pat, angle) ==
    LET tile == tile_pat[1]
        dir == tile_pat[2]
    IN  CASE tile \in {0, 4} -> tile_pat
          [] tile \in {1, 2, 3} -> <<tile, (dir + angle) % 4>>

\* Search.rotate_synonym_tile; any other class raises NotImplementedError
rotate_synonym_tile(tile_pat, angle) ==
    LET tile == tile_pat[1]
        dir == tile_pat[2]
    IN  CASE tile \in {0, 4} -> tile_pat
          [] tile = 1 -> <<tile, (dir + angle) % 4>>
          [] tile \in {2, 3} -> <<tile, (dir + angle) % 2>>

\* Search.rotate_synonym_town
rotate_synonym_town(pat, angle) ==
    IF angle # 0
    THEN LET tls == [i \in 1 .. NUM_TILE |-> <<pat[i], pat[i + NUM_TILE]>>]
             r_tiles == [i \in 1 .. NUM_TILE |-> rotate_synonym_tile(tls[i], angle)]
             r_tiles_remap ==
                 [i \in 1 .. NUM_TILE |->
                     r_tiles[At(At(position_lookup, angle), i - 1) + 1]]
         IN  [i \in 1 .. NUM_TILE |-> r_tiles_remap[i][1]]
             \o [i \in 1 .. NUM_TILE |-> r_tiles_remap[i][2]]
    ELSE pat

RECURSIVE DigitsToInt(_)
\* int() of a string of digits
DigitsToInt(ds) ==
    IF ds = <<>> THEN 0
    ELSE 10 * DigitsToInt(SubSeq(ds, 1, Len(ds) - 1)) + ds[Len(ds)]

RECURSIVE IntToDigits(_, _)
\* str(n).zfill(width)
IntToDigits(n, width) ==
    IF width = 0 THEN <<>>
    ELSE Append(IntToDigits(n \div 10, width - 1), n % 10)

\* int(pattern), an 18-digit number kept as its upper and lower nine digits
PatternInt(pat) ==
    [hi |-> DigitsToInt(SubSeq(pat, 1, NUM_TILE)),
     lo |-> DigitsToInt(SubSeq(pat, NUM_TILE + 1, 2 * NUM_TILE))]

IntLeq(a, b) == a.hi < b.hi \/ (a.hi = b.hi /\ a.lo <= b.lo)

\* Search.first_synonym_town
first_synonym_town(pat) ==
    LET vals == {PatternInt(rotate_synonym_town(pat, angle)) : angle \in 0 .. 3}
        m == CHOOSE v \in vals : \A w \in vals : IntLeq(v, w)
    IN  IntToDigits(m.hi, NUM_TILE) \o IntToDigits(m.lo, NUM_TILE)

\* str.count on a pattern half
CountOf(ds, d) == Cardinality({k \in 1 .. Len(ds) : ds[k] = d})

\* the patterns the loops of search_synonym build: nine classes out of
\* range(5), no class above its number of tiles, every direction below the
\* number of angles of its class
Enumerated(pat) ==
    /\ Len(pat) = 2 * NUM_TILE
    /\ \A k \in 1 .. NUM_TILE : pat[k] \in 0 .. (Len(num_tiles) - 1)
    /\ \A i \in 0 .. (Len(num_tiles) - 1) :
          CountOf(SubSeq(pat, 1, NUM_TILE), i) <= At(num_tiles, i)
    /\ \A k \in 1 .. NUM_TILE : pat[k + NUM_TILE] < At(num_angle, pat[k])

\* search_synonym yields pat
search_yields(pat) ==
    /\ Enumerated(pat)
    /\ ~TownHasFailed("synonym", pat)
    /\ pat = first_synonym_town(pat)

(***************************************************************************)
(* Search.search_synonym deciding on one pattern of its enumeration        *)
(***************************************************************************)
SynonymSeeds == {sd.pattern : sd \in {t \in SeedPatterns : t.tiles = "synonym"}}

\* a seed, a seed turned by rotate_synonym_town, or a seed with one character
\* replaced by any digit
SearchInputs ==
    {rotate_synonym_town(sd, angle) : sd \in SynonymSeeds, angle \in 0 .. 3}
    \cup {[sd EXCEPT ![k] = d] :
             sd \in SynonymSeeds, k \in 1 .. (2 * NUM_TILE), d \in Digits}

InitSearch ==
    /\ psyn \in SearchInputs
    /\ pout = <<>>
    /\ tiles = "synonym"
    /\ tile_list = TileList(tiles)
    /\ pattern = <<>>
    /\ face = [p \in Positions |-> NoFace]
    /\ making_failed = FALSE
    /\ paths = <<>>
    /\ pc = "search"
    /\ idx = 0
    /\ IdlePath /\ IdleRot /\ IdleCall /\ IdleStaged

\* the body of search_synonym's loops for the pattern psyn, which the loops
\* reach only when it is Enumerated
SearchConsider ==
    /\ pc = "search"
    /\ IF search_yields(psyn)
       THEN pc' = "yielded" /\ pout' = psyn
       ELSE pc' = "skipped" /\ pout' = <<>>
    /\ UNCHANGED <<tiles, tile_list, pattern, face, making_failed, paths, idx, psyn,
                   pathVars, rotVars, callVars, stagedVars>>

NextSearch == SearchConsider

SpecSearch == InitSearch /\ [][NextSearch]_vars

RECURSIVE LexLeq(_, _)
\* a is not after b, digit by digit
LexLeq(a, b) ==
    IF a = <<>> \/ b = <<>> THEN a = <<>>
    ELSE Head(a) < Head(b) \/ (Head(a) = Head(b) /\ LexLeq(Tail(a), Tail(b)))

\* the four turns of a pattern
Rotations(pat) == {rotate_synonym_town(pat, angle) : angle \in 0 .. 3}

\* C3: for an enumerated pattern whose synonym Town has not failed,
\* search_synonym yields exactly one of its four turns, that one is the
\* smallest of the four, and the pattern itself is yielded exactly when it
\* is that one
C3_OneRotationYielded ==
    (pc \in {"yielded", "skipped"} /\ Enumerated(psyn)
        /\ ~TownHasFailed("synonym", psyn)) =>
        LET R == Rotations(psyn)
            Y == {q \in R : search_yields(q)}
        IN  /\ Cardinality(Y) = 1
            /\ \A q \in Y, r \in R : LexLeq(q, r)
            /\ (pc = "yielded") <=> (psyn \in Y)
            /\ (pc = "yielded") => (pout = psyn)

C3_Witness ==
    /\ pc = "yielded"
    /\ pout = psyn
    /\ Cardinality(Rotations(psyn)) = 4
    /\ \A r \in Rotations(psyn) : LexLeq(psyn, r)

(***************************************************************************)
(* Search.convert_synonym_original yielding one pattern                    *)
(***************************************************************************)
\* synonym_original_ref: per road class, the groups of <<tile, code>> that
\* show that class, one group per tile
synonym_original_ref == <<
    << <<<<0, 0>>>>, <<<<3, 0>>>>, <<<<5, 4>>>> >>,
    << <<<<1, 0>>>>, <<<<2, 6>>>>, <<<<5, 0>>>>, <<<<8, 0>>>> >>,
    << <<<<0, 4>>, <<0, 6>>>>, <<<<2, 1>>, <<2, 3>>>>,
       <<<<4, 1>>, <<4, 3>>>>, <<<<7, 1>>, <<7, 3>>>> >>,
    << <<<<3, 4>>>>, <<<<6, 4>>, <<6, 6>>>>, <<<<7, 4>>, <<7, 6>>>>,
       <<<<8, 4>>>> >>,
    << <<<<1, 4>>, <<1, 5>>, <<1, 6>>, <<1, 7>>>>, <<<<4, 4>>, <<4, 5>>>>,
       <<<<6, 0>>, <<6, 1>>, <<6, 2>>, <<6, 3>>>> >> >>

num_synonym == Len(synonym_original_ref)

RECURSIVE IndicesFrom(_, _, _)
IndicesFrom(position_synonym, i, k) ==
    IF k = Len(position_synonym) THEN <<>>
    ELSE (IF At(position_synonym, k) = i THEN <<k>> ELSE <<>>)
         \o IndicesFrom(position_synonym, i, k + 1)

\* indices[i]: the positions of class i, ascending
indices(position_synonym, i) == IndicesFrom(position_synonym, i, 0)

RECURSIVE TileFacesFrom(_, _, _)
\* the face tuples of length n over distinct groups outside used
TileFacesFrom(groups, n, used) ==
    IF n = 0 THEN {<<>>}
    ELSE UNION {UNION {{<<groups[g][e]>> \o rest :
                           rest \in TileFacesFrom(groups, n - 1, used \cup {g})} :
                       e \in 1 .. Len(groups[g])} :
                   g \in (1 .. Len(groups)) \ used}

\* tilefaces[i]: itertools.permutations of the groups of class i, taken as
\* many as the class has positions, then itertools.product inside them
tilefaces(position_synonym, i) ==
    TileFacesFrom(At(synonym_original_ref, i), CountOf(position_synonym, i), {})

\* the writes of the two inner loops, in order: <<index, <<tile, code>>>>
TileFaceWrites(position_synonym, tileface_set) ==
    Flatten([i \in 1 .. Len(tileface_set) |->
                [j \in 1 .. Len(tileface_set[i]) |->
                    <<At(indices(position_synonym, i - 1), j - 1),
                      tileface_set[i][j]>>]])

RECURSIVE ApplyWrites(_, _, _)
\* position and direction after Search.replace and Search.rotate per write
ApplyWrites(writes, position, direction) ==
    IF writes = <<>> THEN position \o direction
    ELSE LET w == Head(writes)
         IN  ApplyWrites(Tail(writes), replace(position, w[1], w[2][1]),
                         rotate(direction, w[1], w[2][2]))

\* the tiles named by a tileface_set
TilesUsed(tileface_set) ==
    UNION {{tileface_set[i][j][1] : j \in 1 .. Len(tileface_set[i])} :
              i \in 1 .. Len(tileface_set)}

\* a filter that lets every tileface_set through
uses_all_tiles_unfiltered(tileface_set) == TRUE

\* len(set([t[0] for ts in tileface_set for t in ts])) == NUM_TILE
uses_all_tiles(tileface_set) == Cardinality(TilesUsed(tileface_set)) = NUM_TILE

\* itertools.product(*tilefaces)
TileFaceSets(position_synonym) ==
    tilefaces(position_synonym, 0) \X tilefaces(position_synonym, 1)
    \X tilefaces(position_synonym, 2) \X tilefaces(position_synonym, 3)
    \X tilefaces(position_synonym, 4)

\* the synonym patterns converted: the second synonym town of the seeds in
\* its four turns, and with one class replaced by another
ConvertSeeds == {<<0,0,0,1,1,3,1,2,3, 0,0,0,1,2,1,3,0,1>>}

ConvertInputs ==
    {rotate_synonym_town(sd, angle) : sd \in ConvertSeeds, angle \in 0 .. 3}
    \cup {[sd EXCEPT ![k] = d] :
             sd \in ConvertSeeds, k \in 1 .. NUM_TILE, d \in 0 .. (num_synonym - 1)}

InitConvert ==
    /\ psyn \in ConvertInputs
    /\ pout = <<>>
    /\ tiles = "original"
    /\ tile_list = TileList(tiles)
    /\ pattern = <<>>
    /\ face = [p \in Positions |-> NoFace]
    /\ making_failed = FALSE
    /\ paths = <<>>
    /\ pc = "convert"
    /\ idx = 0
    /\ IdlePath /\ IdleRot /\ IdleCall /\ IdleStaged

\* convert_synonym_original(psyn) up to one of its yields
ConvertYield ==
    /\ pc = "convert"
    /\ LET position_synonym == SubSeq(psyn, 1, NUM_TILE)
           direction_synonym == SubSeq(psyn, NUM_TILE + 1, 2 * NUM_TILE)
       IN  \E tileface_set \in TileFaceSets(position_synonym) :
               /\ uses_all_tiles(tileface_set)
               /\ pout' = ApplyWrites(
                              TileFaceWrites(position_synonym, tileface_set),
                              position_synonym, direction_synonym)
    /\ pc' = "converted"
    /\ UNCHANGED <<tiles, tile_list, pattern, face, making_failed, paths, idx, psyn,
                   pathVars, rotVars, callVars, stagedVars>>

NextConvert == ConvertYield

SpecConvert == InitConvert /\ [][NextConvert]_vars

\* C4: the first nine characters of a yielded pattern are the tile indices
\* 0..8, each exactly once
C4_EachTileOnce ==
    pc = "converted" =>
        /\ Len(pout) = 2 * NUM_TILE
        /\ \A t \in 0 .. (NUM_TILE - 1) :
              Cardinality({k \in 1 .. NUM_TILE : pout[k] = t}) = 1

\* a yield for the synonym town 000113123000121301 whose nine faces show
\* the road classes of the synonym pattern
C4_Witness ==
    /\ pc = "converted"
    /\ psyn \in ConvertSeeds
    /\ {pout[k] : k \in 1 .. NUM_TILE} = 0 .. (NUM_TILE - 1)
    /\ ~TownHasFailed("original", pout)

\* the road edge pairs of a face, each pair as the set of its two edges
RoadPairs(f) ==
    {{f.roads[k].initial_edge, f.roads[k].terminal_edge} :
        k \in 1 .. Len(f.roads)}

\* the face a pattern selects at a position from a tile list
SelectedFace(tl, pat, p) ==
    TileGetFace(At(TileList(tl), At(pat, p)),
                CodeIsFront(At(pat, p + NUM_TILE)),
                CodeAngle(At(pat, p + NUM_TILE)))

\* C18: at every position the face a yielded pattern selects from the real
\* tiles has the same set of road edge pairs as the face the synonym
\* pattern selects from the road-shape tiles, and the Town of the yielded
\* pattern has failed exactly when the synonym Town has
C18_SameRoadsAsSynonym ==
    pc = "converted" =>
        /\ \A p \in Positions :
               /\ SelectedFace("original", pout, p) # NoFace
               /\ RoadPairs(SelectedFace("original", pout, p))
                      = RoadPairs(SelectedFace("synonym", psyn, p))
        /\ TownHasFailed("original", pout) <=> TownHasFailed("synonym", psyn)

\* a yield for a synonym pattern with turned faces, among them both kinds
\* of two-road face, that selects back faces and turned faces
C18_Witness ==
    /\ pc = "converted"
    /\ \E p \in Positions : At(psyn, p) = 2 /\ At(psyn, p + NUM_TILE) # 0
    /\ \E p \in Positions : At(psyn, p) = 1 /\ At(psyn, p + NUM_TILE) # 0
    /\ \E p \in Positions : At(pout, p + NUM_TILE) >= 4
    /\ \E p \in Positions :
           Cardinality(RoadPairs(SelectedFace("original", pout, p))) = 2

(***************************************************************************)
(* Search.search_point_from_synonym, the staged scoring of one synonym     *)
(* pattern (search_point_from_pattern_file runs the same statements on     *)
(* the lines of a file)                                                    *)
(***************************************************************************)
\* Town(pattern, tiles) on a pattern of the right length whose digits name
\* existing faces
TownOf(tl, pat) ==
    LET r == MakeLoop(tl, pat, [p \in Positions |-> NoFace], 0)
        d == IF r.making_failed
             THEN [making_failed |-> TRUE, paths |-> <<>>]
             ELSE make_paths(r.face)
    IN  [face |-> r.face, making_failed |-> d.making_failed, paths |-> d.paths]

\* the parameters of Town.__init__ besides self
TownInitParams == {"pattern", "tiles"}

\* a call of Town(...) with these keyword arguments raises TypeError
TownInitRaises(keywords) == ~(keywords \subseteq TownInitParams)

synonym_themes == <<4, 5, 6, 10, 11, 13, 15>>

RECURSIVE SetPoints(_, _, _, _)
\* for theme in themes: points[theme - 1] = town.theme_point(theme)
SetPoints(pts, town, themes, k) ==
    IF k > Len(themes) THEN pts
    ELSE SetPoints([pts EXCEPT ![themes[k]] =
                        theme_point(town.face, town.paths, themes[k])],
                   town, themes, k + 1)

InitStaged ==
    /\ psyn \in ConvertInputs
    /\ pout = <<>>
    /\ points = <<>>
    /\ previous_position = <<>>
    /\ tiles = "original"
    /\ tile_list = TileList(tiles)
    /\ pattern = <<>>
    /\ face = [p \in Positions |-> NoFace]
    /\ making_failed = FALSE
    /\ paths = <<>>
    /\ pc = "staged"
    /\ idx = 0
    /\ IdlePath /\ IdleRot /\ IdleCall

\* search_point_from_synonym up to its loop: the synonym Town and its
\* shape themes; theme 5 raises ValueError on a Town without paths
StagedBegin ==
    /\ pc = "staged"
    /\ LET synonym_town == TownOf("synonym", psyn)
       IN  IF \E k \in 1 .. Len(synonym_themes) :
                  theme_raises(synonym_town.paths, synonym_themes[k])
           THEN pc' = "error" /\ points' = [no \in 1 .. NUM_THEME |-> 0]
           ELSE /\ pc' = "convert"
                /\ points' = SetPoints([no \in 1 .. NUM_THEME |-> 0],
                                       synonym_town, synonym_themes, 1)
    /\ UNCHANGED <<tiles, tile_list, pattern, face, making_failed, paths, idx, psyn, pout,
                   previous_position, pathVars, rotVars, callVars>>

\* one pass of the loop over convert_synonym_original(psyn) up to the call
\* Town(pattern, is_completable=True), which raises; the statements after
\* it are not reached
StagedTown ==
    /\ pc = "convert"
    /\ LET position_synonym == SubSeq(psyn, 1, NUM_TILE)
           direction_synonym == SubSeq(psyn, NUM_TILE + 1, 2 * NUM_TILE)
       IN  \E tileface_set \in TileFaceSets(position_synonym) :
               /\ uses_all_tiles(tileface_set)
               /\ pattern' = ApplyWrites(
                                 TileFaceWrites(position_synonym, tileface_set),
                                 position_synonym, direction_synonym)
    /\ TownInitRaises({"is_completable"})
    /\ pc' = "error"
    /\ UNCHANGED <<tiles, tile_list, face, making_failed, paths, idx, psyn, pout,
                   stagedVars, pathVars, rotVars, callVars>>

NextStaged == StagedBegin \/ StagedTown

SpecStaged == InitStaged /\ [][NextStaged]_vars

\* C15: every pattern the staged scoring takes from the conversion is
\* emitted together with the 26 points Town(pattern).get_theme_point()
\* gives from scratch
C15_StagedEqualsScratch ==
    pattern # <<>> =>
        LET town == TownOf("original", pattern)
        IN  /\ pc = "emitted"
            /\ pout = <<pattern, points>>
            /\ points = get_theme_point(town.face, town.paths).points


(***************************************************************************)
(* Tile.get_face, Town.add_tile and Town.make called one after the other   *)
(* on one shared tile list                                                 *)
(***************************************************************************)
MaxCalls == 3
MaxTile == 1
MaxCell == 1

RECURSIVE MakeLoopTiles(_, _, _, _)
\* the loop of Town.make from position i on, reading the tiles from the
\* list tl as it stands and handing back the list as the calls leave it
MakeLoopTiles(tl, pat, fc, i) ==
    IF i = NUM_TILE THEN [face |-> fc, making_failed |-> FALSE, tiles |-> tl]
    ELSE LET t == At(pat, i)
             code == At(pat, i + NUM_TILE)
             adding_face == TileGetFace(At(tl, t), CodeIsFront(code),
                                        CodeAngle(code))
             after == [tl EXCEPT ![t + 1] =
                          TileAfterGetFace(At(tl, t), CodeIsFront(code),
                                           CodeAngle(code))]
             r == add_tile(fc, FALSE, i, adding_face)
         IN  IF r.making_failed
             THEN [face |-> r.face, making_failed |-> TRUE, tiles |-> after]
             ELSE MakeLoopTiles(after, pat, r.face, i + 1)

InitFrame ==
    /\ tiles \in {"original", "synonym"}
    /\ tile_list = TileList(tiles)
    /\ pattern = <<>>
    /\ face = [p \in Positions |-> NoFace]
    /\ making_failed = FALSE
    /\ paths = <<>>
    /\ pc = "frame"
    /\ idx = 0
    /\ IdlePath /\ IdleRot /\ IdleSearch /\ IdleCall /\ IdleStaged

\* tiles[t].get_face(True, angle)
FrameGetFace(t, angle) ==
    /\ idx < MaxCalls
    /\ idx' = idx + 1
    /\ ret' = TileGetFace(At(tile_list, t), TRUE, angle)
    /\ tile_list' = [tile_list EXCEPT ![t + 1] =
                        TileAfterGetFace(At(tile_list, t), TRUE, angle)]
    /\ UNCHANGED <<tiles, pattern, face, making_failed, paths, pc, arg,
                   pathVars, rotVars, searchVars, stagedVars>>

\* town = Town()
FrameTown ==
    /\ idx < MaxCalls
    /\ idx' = idx + 1
    /\ pattern' = <<>>
    /\ face' = [p \in Positions |-> NoFace]
    /\ making_failed' = FALSE
    /\ paths' = <<>>
    /\ pc' = "frame"
    /\ UNCHANGED <<tiles, tile_list, pathVars, rotVars, searchVars, callVars,
                   stagedVars>>

\* town.add_tile(position, tiles[t], True, angle)
FrameAddTile(position, t, angle) ==
    /\ idx < MaxCalls
    /\ idx' = idx + 1
    /\ LET r == add_tile(face, making_failed, position,
                         TileGetFace(At(tile_list, t), TRUE, angle))
       IN  /\ face' = r.face
           /\ making_failed' = r.making_failed
    /\ tile_list' = [tile_list EXCEPT ![t + 1] =
                        TileAfterGetFace(At(tile_list, t), TRUE, angle)]
    /\ pc' = "added"
    /\ UNCHANGED <<tiles, pattern, paths, pathVars, rotVars, searchVars,
                   callVars, stagedVars>>

\* town = Town(pat, tiles)
FrameMake(pat) ==
    /\ idx < MaxCalls
    /\ idx' = idx + 1
    /\ pattern' = pat
    /\ LET r == MakeLoopTiles(tile_list, pat, [p \in Positions |-> NoFace], 0)
           d == IF r.making_failed
                THEN [making_failed |-> TRUE, paths |-> <<>>]
                ELSE make_paths(r.face)
       IN  /\ face' = r.face
           /\ making_failed' = d.making_failed
           /\ paths' = d.paths
           /\ tile_list' = r.tiles
    /\ pc' = "made"
    /\ UNCHANGED <<tiles, pathVars, rotVars, searchVars, callVars, stagedVars>>

NextFrame ==
    \/ \E t \in 0 .. MaxTile, angle \in 0 .. 3 : FrameGetFace(t, angle)
    \/ FrameTown
    \/ \E position \in 0 .. MaxCell, t \in 0 .. MaxTile, angle \in 0 .. 3 :
           FrameAddTile(position, t, angle)
    \/ \E sd \in {x \in SeedPatterns : x.tiles = tiles} : FrameMake(sd.pattern)

SpecFrame == InitFrame /\ [][NextFrame]_vars

\* C16: whatever calls of Tile.get_face, Town.add_tile and Town.make were
\* made on a tile list, every tile of the list still has the front and back
\* face it started with, and a Town made from a pattern is the Town that
\* pattern gives on the untouched list
C16_TilesUntouched ==
    /\ tile_list = TileList(tiles)
    /\ pc = "made" =>
           LET town == TownOf(tiles, pattern)
           IN  /\ face = town.face
               /\ making_failed = town.making_failed
               /\ paths = town.paths

\* a Town made without failure, with turned faces, as the third call or
\* later, after a get_face that turned a face with a road
C16_Witness ==
    /\ pc = "made"
    /\ idx >= 3
    /\ ~making_failed
    /\ ret # <<>>
    /\ ret # NoFace
    /\ \E t \in 0 .. MaxTile :
           /\ ret # At(TileList(tiles), t).front_face
           /\ ret = TileGetFace(At(TileList(tiles), t), TRUE, 1)
    /\ \E p \in Positions : At(pattern, p + NUM_TILE) \notin {0, 4}


\* C20: a Town that Town.make leaves marked failed, by an invalid placement
\* or by a cyclic road component, has an empty path list
C20_FailedTownHasNoPaths ==
    (pc = "done" /\ making_failed) => paths = <<>>


(***************************************************************************)
(* Town.theme_point called for the themes 2, 16 and 20 on a Town whose     *)
(* paths carry any occupants (a Town over a caller's tile list)            *)
(***************************************************************************)
\* the occupant sequences of up to MaxObjs occupants
OccupantSeqs == UNION {[1 .. n -> PathOccupants] : n \in 0 .. MaxObjs}

\* the occupants of a second path of the Town
SecondPaths == {
    <<>>,
    <<set_dir(Agent(0), "right"), set_dir(Alien(0), "right"), Hamburger>>,
    <<Hamburger, set_dir(Alien(0), "left"), set_dir(Agent(0), "left")>>,
    <<set_dir(Agent(0), "right"), set_dir(Alien(0), "left"),
      set_dir(Alien(0), "right"), set_dir(Agent(0), "left")>>,
    <<Hamburger, Hamburger, set_dir(Alien(0), "left")>> }

\* Path(path_graph).check_food_chain() for a road with these occupants
PathOf(objs, left, right) ==
    [left_end |-> left, right_end |-> right, length |-> Len(objs) + 1,
     objects |-> check_food_chain(objs)]

InitTheme ==
    /\ tiles = "hand"
    /\ tile_list = TileList(tiles)
    /\ pattern = <<>>
    /\ face = [p \in Positions |-> NoFace]
    /\ making_failed = FALSE
    /\ \E o1 \in OccupantSeqs :
           \/ paths = <<PathOf(o1, 0, 34)>>
           \/ \E o2 \in SecondPaths :
                  paths = <<PathOf(o1, 0, 4), PathOf(o2, 1, 34)>>
    /\ pc = "themes"
    /\ idx = 0
    /\ IdlePath /\ IdleRot /\ IdleSearch /\ IdleCall /\ IdleStaged

\* town.theme_point(no)
ThemePoint(no) ==
    /\ pc = "themes"
    /\ ret = <<>>
    /\ arg' = <<no>>
    /\ ret' = <<theme_point(face, paths, no)>>
    /\ UNCHANGED <<townVars, pathVars, rotVars, searchVars, stagedVars>>

NextTheme == \E no \in {2, 16, 20} : ThemePoint(no)

SpecTheme == InitTheme /\ [][NextTheme]_vars

\* the largest member of a set of naturals, 0 for the empty set
MaxOrZero(S) == IF S = {} THEN 0 ELSE SetMax(S)

\* how many occupants of objs strictly between the places i and k satisfy
\* being of this kind
KindBetween(objs, i, k, kind) ==
    Cardinality({n \in (i + 1) .. (k - 1) : objs[n].kind = kind})

\* theme 2 on one path: the alien counts of the brackets, a bracket being
\* two agents with no agent between them, the first facing right and the
\* second facing left
Brackets(objs) ==
    {KindBetween(objs, i, k, "Alien") :
        <<i, k>> \in {pr \in (1 .. Len(objs)) \X (1 .. Len(objs)) :
            /\ pr[1] < pr[2]
            /\ objs[pr[1]].kind = "Agent" /\ objs[pr[1]].dir = "right"
            /\ objs[pr[2]].kind = "Agent" /\ objs[pr[2]].dir = "left"
            /\ KindBetween(objs, pr[1], pr[2], "Agent") = 0}}

\* C24: theme 2 is the largest number of aliens, captured or free, between
\* two agents that follow each other among a path's agents, the earlier
\* facing right and the later facing left, and 0 without such a pair
C24_Theme2Brackets ==
    (ret # <<>> /\ arg = <<2>>) =>
        ret = <<MaxOrZero(UNION {Brackets(paths[n].objects) :
                                    n \in 1 .. Len(paths)})>>

\* a Town whose largest bracket holds two aliens
C24_Witness ==
    /\ arg = <<2>>
    /\ ret = <<2>>
    /\ \E n \in 1 .. Len(paths) :
           /\ 2 \in Brackets(paths[n].objects)
           /\ Len(paths[n].objects) = 4


\* the places of the free aliens of a path
FreeAliens(objs) ==
    {n \in 1 .. Len(objs) : objs[n].kind = "Alien" /\ ~objs[n].is_captured}

\* theme 16 on one path: for every free alien the number of hamburgers
\* from it, in the direction it faces, to the next free alien or to the end
\* of the path
AlienRuns(objs) ==
    {LET stop == IF objs[i].dir = "right"
                 THEN SetMin({n \in FreeAliens(objs) : n > i}
                             \cup {Len(objs) + 1})
                 ELSE SetMax({n \in FreeAliens(objs) : n < i} \cup {0})
     IN  IF objs[i].dir = "right"
         THEN KindBetween(objs, i, stop, "Hamburger")
         ELSE KindBetween(objs, stop, i, "Hamburger") :
        i \in FreeAliens(objs)}

\* C25: theme 16 is the largest number of hamburgers lying, in a free
\* alien's facing direction, between that alien and the next free alien (or
\* the end of the path); captured aliens do not end a run; 0 without a free
\* alien
C25_Theme16Runs ==
    (ret # <<>> /\ arg = <<16>>) =>
        ret = <<MaxOrZero(UNION {AlienRuns(paths[n].objects) :
                                    n \in 1 .. Len(paths)})>>

\* a right-facing free alien whose run reaches a hamburger past a captured
\* alien
C25_Witness ==
    /\ arg = <<16>>
    /\ ret = <<1>>
    /\ \E n \in 1 .. Len(paths) :
           LET objs == paths[n].objects
           IN  \E i \in FreeAliens(objs), k \in 1 .. Len(objs),
                  m \in 1 .. Len(objs) :
                   /\ i < k /\ k < m
                   /\ objs[i].dir = "right"
                   /\ objs[k].kind = "Alien" /\ objs[k].is_captured
                   /\ objs[m].kind = "Hamburger"
                   /\ AlienRuns(objs) = {1}

\* the occupant at place n of objs is of this kind and, unless a hamburger,
\* faces d
Is(objs, n, kind, d) ==
    /\ objs[n].kind = kind
    /\ kind # "Hamburger" => objs[n].dir = d

\* theme 20 on one path: the places where three occupants in a row are
\* right-facing Agent, right-facing Alien, Hamburger, and those where they
\* are Hamburger, left-facing Alien, left-facing Agent
Triples(objs) ==
    Cardinality({i \in 1 .. (Len(objs) - 2) :
        /\ Is(objs, i, "Agent", "right")
        /\ Is(objs, i + 1, "Alien", "right")
        /\ Is(objs, i + 2, "Hamburger", "")})
    + Cardinality({i \in 1 .. (Len(objs) - 2) :
        /\ Is(objs, i, "Hamburger", "")
        /\ Is(objs, i + 1, "Alien", "left")
        /\ Is(objs, i + 2, "Agent", "left")})

\* C26: theme 20 is, summed over the paths, the number of places where
\* three occupants in a row are (right-facing Agent, right-facing Alien,
\* Hamburger) or (Hamburger, left-facing Alien, left-facing Agent)
C26_Theme20Triples ==
    (ret # <<>> /\ arg = <<20>>) =>
        ret = <<SumSeq([n \in 1 .. Len(paths) |-> Triples(paths[n].objects)])>>

\* two paths with a triple each, the first one begun by the agent that
\* broke a sequence
C26_Witness ==
    /\ arg = <<20>>
    /\ ret = <<2>>
    /\ Len(paths) = 2
    /\ Triples(paths[1].objects) = 1
    /\ Triples(paths[2].objects) = 1
    /\ Len(paths[1].objects) = 4
    /\ Is(paths[1].objects, 1, "Agent", "right")
    /\ Is(paths[1].objects, 2, "Agent", "right")


\* the roads of the Town whose ends lie in the node set c, as places in recs
RoadsIn(recs, c) == {n \in 1 .. Len(recs) : recs[n].u \in c}

\* how many of the occupants objs are of this kind
NumKind(objs, kind) ==
    Cardinality({n \in 1 .. Len(objs) : objs[n].kind = kind})

\* C29: in a Town that Town.make leaves not failed, every Path has exactly
\* two outer nodes, the smaller its left end and the larger its right end,
\* and inner nodes otherwise; every Road lies on exactly one Path, so the
\* path lengths sum to the number of roads; and every road with an agent, an
\* alien or a hamburger gives exactly one occupant of its path
C29_PathsPartitionRoads ==
    (pc = "done" /\ ~making_failed) =>
        LET recs == town_roads(face)
            comps == connected_components(recs)
        IN  /\ Len(paths) = Len(comps)
            /\ \A k \in 1 .. Len(paths) :
                   LET c == comps[k]
                       ends == c \cap SeqSet(OUTER_EDGES)
                       here == [n \in 1 .. Len(recs) |->
                                   IF n \in RoadsIn(recs, c) THEN recs[n].object
                                   ELSE NoObject]
                   IN  /\ Cardinality(ends) = 2
                       /\ ends = {paths[k].left_end, paths[k].right_end}
                       /\ paths[k].left_end < paths[k].right_end
                       /\ c \ ends \subseteq SeqSet(INNER_EDGES)
                       /\ paths[k].length = Cardinality(RoadsIn(recs, c))
                       /\ \A kind \in {"Agent", "Alien", "Hamburger"} :
                              NumKind(paths[k].objects, kind) = NumKind(here, kind)
                       /\ \A n \in 1 .. Len(paths[k].objects) :
                              paths[k].objects[n].kind \in {"Agent", "Alien"} =>
                                  Cardinality({m \in RoadsIn(recs, c) :
                                      /\ recs[m].object.kind
                                             = paths[k].objects[n].kind
                                      /\ recs[m].object.face
                                             = paths[k].objects[n].face})
                                  = Cardinality({m \in 1 .. Len(paths[k].objects) :
                                      /\ paths[k].objects[m].kind
                                             = paths[k].objects[n].kind
                                      /\ paths[k].objects[m].face
                                             = paths[k].objects[n].face})
            /\ \A n \in 1 .. Len(recs) :
                   Cardinality({k \in 1 .. Len(comps) :
                                   n \in RoadsIn(recs, comps[k])}) = 1
            /\ SumSeq(PathLengths(paths)) = Len(TownGetRoadsFrom(face, 0))

\* a Town of the real tiles with several paths, one of them over more than
\* two roads, and with occupants facing either way
C29_Witness ==
    /\ pc = "done"
    /\ ~making_failed
    /\ tiles = "original"
    /\ Len(paths) >= 3
    /\ \E k \in 1 .. Len(paths) : paths[k].length >= 3
    /\ \E k \in 1 .. Len(paths) : \E n \in 1 .. Len(paths[k].objects) :
           /\ paths[k].objects[n].kind # "Hamburger"
           /\ paths[k].objects[n].dir = "right"
    /\ \E k \in 1 .. Len(paths) : \E n \in 1 .. Len(paths[k].objects) :
           /\ paths[k].objects[n].kind # "Hamburger"
           /\ paths[k].objects[n].dir = "left"


(***************************************************************************)
(* Search.rotate_synonym_town applied again and again to one pattern       *)
(***************************************************************************)
\* a synonym pattern: nine classes out of range(5), every direction below
\* the number of angles of its class
WellFormedSynonym(pat) ==
    /\ Len(pat) = 2 * NUM_TILE
    /\ \A k \in 1 .. NUM_TILE : pat[k] \in 0 .. (Len(num_angle) - 1)
    /\ \A k \in 1 .. NUM_TILE : pat[k + NUM_TILE] < At(num_angle, pat[k])

TurnInputs == {p \in SearchInputs : WellFormedSynonym(p)}

InitTurn ==
    /\ psyn \in TurnInputs
    /\ pout = psyn
    /\ rturns = 0
    /\ rorig = NoFace
    /\ rface = NoFace
    /\ tiles = "synonym"
    /\ tile_list = TileList(tiles)
    /\ pattern = <<>>
    /\ face = [p \in Positions |-> NoFace]
    /\ making_failed = FALSE
    /\ paths = <<>>
    /\ pc = "turning"
    /\ idx = 0
    /\ IdlePath /\ IdleCall /\ IdleStaged

\* pout = Search.rotate_synonym_town(pout, angle)
SynonymTurn(angle) ==
    /\ pc = "turning"
    /\ rturns + angle <= MaxTurns
    /\ pout' = rotate_synonym_town(pout, angle)
    /\ rturns' = rturns + angle
    /\ arg' = <<angle>>
    /\ UNCHANGED <<townVars, pathVars, rorig, rface, psyn, ret, stagedVars>>

NextTurn == \E angle \in 0 .. 3 : SynonymTurn(angle)

SpecTurn == InitTurn /\ [][NextTurn]_vars

\* C30: on a well-formed synonym pattern, turns by rotate_synonym_town add up
\* modulo 4: whatever sequence of turns was applied, the pattern reached is
\* the original turned once by the sum of the angles modulo 4, so a turn by
\* 0 changes nothing and a total of four quarter turns gives the original
\* back; and first_synonym_town of the pattern reached is first_synonym_town
\* of the original.
C30_RotationGroupAction ==
    (pc = "turning") =>
        /\ pout = rotate_synonym_town(psyn, rturns % 4)
        /\ rotate_synonym_town(pout, 0) = pout
        /\ (rturns % 4 = 0) => (pout = psyn)
        /\ \A a, b \in 0 .. 3 :
              rotate_synonym_town(rotate_synonym_town(pout, a), b)
                  = rotate_synonym_town(pout, (a + b) % 4)
        /\ first_synonym_town(pout) = first_synonym_town(psyn)
        /\ \A a \in 0 .. 3 :
              first_synonym_town(rotate_synonym_town(pout, a))
                  = first_synonym_town(pout)

\* four quarter turns were applied one after the other to a pattern that a
\* single quarter turn changes, one of whose classes has two angles only
C30_Witness ==
    /\ pc = "turning"
    /\ rturns = 4
    /\ arg = <<1>>
    /\ pout = psyn
    /\ rotate_synonym_town(psyn, 1) # psyn
    /\ \E k \in 1 .. NUM_TILE : psyn[k] \in {2, 3} /\ psyn[k + NUM_TILE] = 1

====
